---- MODULE Spec2Model ----
(***************************************************************************)
(* belaykit: the streaming process-output parser and event normalisation   *)
(* pipeline of the Codex adapter (codex/codex.go) and of the Claude        *)
(* adapter (claude.go).  One behaviour is one Client and one call of Run.  *)
(* The Slack client, Notifier and event handler, the belay trace Provider  *)
(* (called from one goroutine, and shared by several), the logger, and     *)
(* several Runs at once on one codex Client follow, each with a            *)
(* specification of its own over the same variables.                       *)
(*                                                                         *)
(* Go strings are sequences of tokens: "" is << >>, concatenation is \o.   *)
(* A JSON number is carried in halves (the value 3 stands for 1.5), so     *)
(* that the float64 -> int64 conversions of the code are not the identity. *)
(* The pass-through fields of events and completion records (RawJSON,      *)
(* TraceID, Prompt, Model, ToolInput) are copied from the caller's         *)
(* arguments unchanged and carry no state; they are left out.              *)
(***************************************************************************)
EXTENDS Integers, Sequences, FiniteSets, TLC

\* The longest stream of lines one Run consumes.
MaxLines == 3

VARIABLES
    adapter,        \* "codex" | "claude": which Client was constructed
    eventHandler,   \* Client.eventHandler # nil
    observability,  \* Client.observability # nil
    pc,             \* position of Run: "idle" | "running" | "done"
    handler,        \* Run's resolved handler # nil
    outputStream,   \* cfg.OutputStream # nil
    consumed,       \* the lines the decode loop has taken so far, in order
    state,          \* codex: runState
    stderrBuf,      \* codex: stderrBuf (bytes.Buffer)
    resultText,     \* claude: resultText
    sessionID,      \* claude: sessionID
    events,         \* the events the handler has received, in order
    records,        \* the CompletionRecords the sink has received, in order
    streamOut,      \* the bytes written to cfg.OutputStream
    exit,           \* what the process did at its end, as Run observed it
    ret,            \* what Run returned
    runConfig,      \* codex: cfg, the run options Run was called with
    spawn,          \* how far the process setup of Run got
    lastMsgFile,    \* codex: the last-message temp file
    script,         \* the lines the child process writes to stdout and to stderr
    written,        \* how many lines of each the child has written
    childExited,    \* the child has exited (or was killed): its pipe ends are closed
    pipe,           \* the lines in the stdout pipe and in the stderr pipe
    reader,         \* codex: the two goroutines of streamLines
    lineChan,       \* codex: lines, the channel of streamLines (out)
    linesClosed,    \* codex: close(out) was called
    sent,           \* codex: every line sent on the channel, in order
    canceled,       \* ctx was canceled while the child was running
    backoff,        \* slack: c.retryConfig.Backoff
    attempt,        \* slack: PostWithRetry's i
    calls,          \* slack: what each call of fn returned, in order
    lastErr,        \* slack: PostWithRetry's lastErr
    postPc,         \* slack: position of PostWithRetry
    postRet,        \* slack: what PostWithRetry returned
    notifierCfg,    \* slack: Notifier.cfg
    threadTS,       \* slack: Notifier.threadTS
    started,        \* slack: Notifier.started
    requests,       \* slack: the HTTP requests the Notifier's client made, in order
    pricing,        \* belay: Provider.pricing
    contextWindow,  \* belay: Provider.contextWindow
    root,           \* belay: Provider.root, the trace tree in progress
    currentPhase,   \* belay: Provider.currentPhase, as an index into root.Children
    phaseStart,     \* belay: Provider.phaseStart is the zero time, or was set
    toolStart,      \* belay: Provider.toolStart, the tool IDs it holds
    toolNodes,      \* belay: Provider.toolNodes, tool ID -> place of the node in the tree
    traceID,        \* belay: Provider.traceID
    inputTokens,    \* belay: Provider.inputTokens
    outputTokens,   \* belay: Provider.outputTokens
    files,          \* belay: the trace files in Provider.dir, by trace ID
    provCalls,      \* belay: the calls the Provider has received, in order
    loggerCfg,      \* logger: cfg
    inTurn,         \* logger: inTurn
    loggerTokens,   \* logger: inputTokens and outputTokens
    logged,         \* logger: the events the handler has received, in order
    output,         \* logger: the lines written to w, in order
    handlerEvents,  \* slack handler: notifier.cfg.Events
    sessionStarted, \* slack handler: sessionStarted of the closure
    handled,        \* slack handler: the events passed to the handler, in order
    goroutines,     \* slack handler: the goroutines it started, in order
    mu,             \* belay: Provider.mu, the goroutine that holds it (0: unlocked)
    callers,        \* belay: the goroutines that call the Provider, each one's place
    runs            \* codex: the Runs in progress at once on one Client, by call

runVars == <<adapter, eventHandler, observability, pc, handler, outputStream,
             consumed, state, stderrBuf, resultText, sessionID, events, records,
             streamOut, exit, ret, runConfig, spawn, lastMsgFile>>

streamVars == <<script, written, childExited, pipe, reader, lineChan, linesClosed,
                sent, canceled>>

slackVars == <<backoff, attempt, calls, lastErr, postPc, postRet>>

notifierVars == <<notifierCfg, threadTS, started, requests>>

\* the three parts above, and the parts that follow them
coreVars == <<runVars, streamVars, slackVars>>

belayVars == <<pricing, contextWindow, root, currentPhase, phaseStart, toolStart,
               toolNodes, traceID, inputTokens, outputTokens, files, provCalls, mu, callers>>

loggerVars == <<loggerCfg, inTurn, loggerTokens, logged, output>>

slackHandlerVars == <<handlerEvents, sessionStarted, handled, goroutines>>

auxVars == <<notifierVars, belayVars, loggerVars, slackHandlerVars, runs>>

vars == <<coreVars, auxVars>>

----------------------------------------------------------------------------
(* Strings and JSON values *)

EmptyStr == << >>

\* unicode.IsSpace on the tokens the model uses
Whitespace == {" ", "\n"}

\* strings.TrimSpace(s)
RECURSIVE TrimLeft(_)
TrimLeft(s) ==
    IF s # << >> /\ Head(s) \in Whitespace THEN TrimLeft(Tail(s)) ELSE s

RECURSIVE TrimRight(_)
TrimRight(s) ==
    IF s # << >> /\ s[Len(s)] \in Whitespace
    THEN TrimRight(SubSeq(s, 1, Len(s) - 1)) ELSE s

TrimSpace(s) == TrimRight(TrimLeft(s))

\* strings.Contains(s, sub), on the segments of a type string
Contains(s, sub) == \E i \in 1..Len(s) : s[i] = sub

\* A decoded JSON value: t is its JSON type, v its content.
Absent == [t |-> "absent", v |-> << >>]
JInvalid == [t |-> "invalid", v |-> << >>]
JNull == [t |-> "null", v |-> << >>]
JStr(s) == [t |-> "string", v |-> s]
JNum(h) == [t |-> "number", v |-> h]
JBool(b) == [t |-> "bool", v |-> b]
JObj(r) == [t |-> "object", v |-> r]
JArr(a) == [t |-> "array", v |-> a]

\* m[key] of a Go map[string]any decoded from a JSON object
Get(m, key) == IF key \in DOMAIN m THEN m[key] ELSE Absent

\* v, _ := m[key].(string): the string, or "" when absent or of another type
StringField(m, key) ==
    LET x == Get(m, key) IN IF x.t = "string" THEN x.v ELSE EmptyStr

\* m[key].(map[string]any): the nested object, or the empty map
IsObjectField(m, key) == Get(m, key).t = "object"

----------------------------------------------------------------------------
(* The normalised events and the completion record *)

EventAssistant == "assistant"
EventAssistantStart == "assistant_start"
EventResult == "result"
EventSystem == "system"
EventToolUse == "tool_use"
EventToolResult == "tool_result"
EventResultError == "result_error"

\* Event{}: the zero value
ZeroEvent ==
    [Type |-> "", Text |-> EmptyStr, SessionID |-> EmptyStr, Subtype |-> EmptyStr,
     ToolName |-> EmptyStr, ToolID |-> EmptyStr,
     CostUSD |-> 0, Duration |-> 0, NumTurns |-> 0, IsError |-> FALSE]

\* CompletionRecord{...}
CompletionRecord(sid, response, cost, dur, turns, isError) ==
    [SessionID |-> sid, Response |-> response, CostUSD |-> cost,
     DurationMS |-> dur, NumTurns |-> turns, IsError |-> isError]

\* what Run returns: the Result text and the error
\* err: "nil" | "UnsupportedOptionError" | "CreateTemp" | "StdoutPipe" |
\*      "StderrPipe" | "ErrCLINotFound" | "ExitError" | "ctx.Err"
Return(text, err, option, stderrText) ==
    [Text |-> text, err |-> err, Option |-> option, Stderr |-> stderrText]

NoReturn == Return(EmptyStr, "pending", "", EmptyStr)

\* the process end as Run observes it: cmd.Wait()'s error, ctx.Err(), the
\* last-message file (codex) and the rest of stderr (claude)
Exit(waitErr, ctxErr, fileOK, fileData, stderrText) ==
    [waited |-> TRUE, waitErr |-> waitErr, ctxErr |-> ctxErr, lastMsgOK |-> fileOK,
     lastMsg |-> fileData, stderr |-> stderrText]

\* cmd.Wait() has not returned
NoExit == [Exit(FALSE, FALSE, FALSE, EmptyStr, EmptyStr) EXCEPT !.waited = FALSE]

----------------------------------------------------------------------------
(* Codex: the lines a child process can write *)

ThreadStarted == <<"thread.started">>
TurnStarted == <<"turn.started">>
TurnFailed == <<"turn.", "failed">>
TurnCompleted == <<"turn.completed">>
AssistantMessageDelta == <<"assistant", ".", "message", ".delta">>

\* The bodies of the lines, and json.Unmarshal's reading of each.
CodexJSON(body) ==
    CASE body = "garbage" -> JInvalid
      [] body = "oops" -> JInvalid
      [] body = "123" -> JNum(246)
      [] body = "{type:thread.started,thread_id:t1}" ->
            JObj([type |-> JStr(ThreadStarted), thread_id |-> JStr(<<"t1">>)])
      [] body = "{type:turn.started}" ->
            JObj([type |-> JStr(TurnStarted)])
      [] body = "{type:turn.started,delta:hi}" ->
            JObj([type |-> JStr(TurnStarted), delta |-> JStr(<<"hi">>)])
      [] body = "{type:turn.failed,error:{message:boom}}" ->
            JObj([type |-> JStr(TurnFailed),
                  error |-> JObj([message |-> JStr(<<"boom">>)])])
      [] body = "{type:turn.failed}" ->
            JObj([type |-> JStr(TurnFailed)])
      [] body = "{type:assistant.message.delta,delta:hello }" ->
            JObj([type |-> JStr(AssistantMessageDelta), delta |-> JStr(<<"hello ">>)])
      [] body = "{type:assistant.message.delta,delta:world}" ->
            JObj([type |-> JStr(AssistantMessageDelta), delta |-> JStr(<<"world">>)])
      [] body = "{type:turn.completed,duration_ms:12.5,cost_usd:0.5}" ->
            JObj([type |-> JStr(TurnCompleted), duration_ms |-> JNum(25),
                  cost_usd |-> JNum(1)])
      [] body = "{type:token_count,cost_usd:1.5,duration_ms:soon}" ->
            JObj([type |-> JStr(<<"token_count">>), cost_usd |-> JNum(3),
                  duration_ms |-> JStr(<<"soon">>)])
      [] OTHER -> JInvalid

CodexStdoutBodies ==
    {"garbage",
     "{type:thread.started,thread_id:t1}",
     "{type:turn.started}",
     "{type:turn.started,delta:hi}",
     "{type:turn.failed,error:{message:boom}}",
     "{type:turn.failed}",
     "{type:assistant.message.delta,delta:hello }",
     "{type:assistant.message.delta,delta:world}",
     "{type:turn.completed,duration_ms:12.5,cost_usd:0.5}",
     "{type:token_count,cost_usd:1.5,duration_ms:soon}"}

CodexStderrBodies ==
    {"oops", "123", "{type:turn.failed,error:{message:boom}}"}

\* streamLine{body, fromStderr}
CodexLines ==
    [body : CodexStdoutBodies, fromStderr : {FALSE}]
        \cup [body : CodexStderrBodies, fromStderr : {TRUE}]

\* the content of the last-message file when Run reads it: os.ReadFile's
\* (data, err == nil)
LastMsgFiles ==
    {[ok |-> FALSE, data |-> EmptyStr],
     [ok |-> TRUE, data |-> EmptyStr],
     [ok |-> TRUE, data |-> <<" ">>],
     [ok |-> TRUE, data |-> <<"final">>]}

----------------------------------------------------------------------------
(* Codex: runState and handleJSONLine *)

\* runState{}
ZeroRunState ==
    [sessionID |-> EmptyStr, assistantText |-> EmptyStr, lastError |-> EmptyStr,
     costUSD |-> 0, durationMS |-> 0, numTurns |-> 0, resultEmitted |-> FALSE]

\* json.Valid(line.body)
Valid(body) == CodexJSON(body).t # "invalid"

\* json.Unmarshal(line, &payload) into a map[string]any returns nil
UnmarshalMapOK(j) == j.t \in {"object", "null"}

\* the map json.Unmarshal leaves in payload (nil for the JSON null)
PayloadOf(j) == IF j.t = "object" THEN j.v ELSE << >>

\* every line with a type is taken for an assistant line
looksLikeAnyEvent(eventType) == eventType # EmptyStr

looksLikeAssistantEvent(eventType) ==
    IF eventType = EmptyStr THEN FALSE
    ELSE IF Contains(eventType, "error") \/ Contains(eventType, "failed") THEN FALSE
    ELSE Contains(eventType, "assistant") \/ Contains(eventType, "message")
            \/ Contains(eventType, "output_text")

\* the first block of item.content that is an object with a non-empty text
RECURSIVE FirstBlockText(_)
FirstBlockText(content) ==
    IF content = << >> THEN EmptyStr
    ELSE LET block == Head(content) IN
         IF block.t = "object" /\ StringField(block.v, "text") # EmptyStr
         THEN StringField(block.v, "text")
         ELSE FirstBlockText(Tail(content))

extractAssistantText(eventType, payload) ==
    IF ~looksLikeAssistantEvent(eventType) THEN EmptyStr
    ELSE IF StringField(payload, "delta") # EmptyStr THEN StringField(payload, "delta")
    ELSE IF StringField(payload, "text") # EmptyStr THEN StringField(payload, "text")
    ELSE IF StringField(payload, "output_text") # EmptyStr
         THEN StringField(payload, "output_text")
    ELSE IF IsObjectField(payload, "message")
            /\ StringField(Get(payload, "message").v, "text") # EmptyStr
         THEN StringField(Get(payload, "message").v, "text")
    ELSE IF ~IsObjectField(payload, "item") THEN EmptyStr
    ELSE LET item == Get(payload, "item").v IN
         IF StringField(item, "text") # EmptyStr THEN StringField(item, "text")
         ELSE IF Get(item, "content").t = "array"
              THEN FirstBlockText(Get(item, "content").v)
              ELSE EmptyStr

extractErrorMessage(payload) ==
    IF StringField(payload, "message") # EmptyStr THEN StringField(payload, "message")
    ELSE IF IsObjectField(payload, "error")
         THEN StringField(Get(payload, "error").v, "message")
         ELSE EmptyStr

\* floatField(payload, key): (value, ok)
floatField(payload, key) ==
    LET x == Get(payload, key) IN
    IF x.t = "number" THEN [v |-> x.v, ok |-> TRUE] ELSE [v |-> 0, ok |-> FALSE]

\* int64Field(payload, key): (int64(value), ok); int64() drops the fraction
int64Field(payload, key) ==
    LET x == Get(payload, key) IN
    IF x.t = "number" THEN [v |-> x.v \div 2, ok |-> TRUE] ELSE [v |-> 0, ok |-> FALSE]

\* the message of a turn.failed line, with the default for a missing one
FailureMessage(payload) ==
    IF extractErrorMessage(payload) = EmptyStr THEN <<"codex run failed">>
    ELSE extractErrorMessage(payload)

\* a switch that counts a failed turn as a turn too
LifecycleSwitchCountingFailed(s, eventType, payload, h) ==
    CASE eventType = ThreadStarted ->
            IF StringField(payload, "thread_id") # EmptyStr
            THEN [s |-> [s EXCEPT !.sessionID = StringField(payload, "thread_id")],
                  ev |-> IF h THEN <<[ZeroEvent EXCEPT
                                        !.Type = EventSystem,
                                        !.SessionID = StringField(payload, "thread_id"),
                                        !.Subtype = <<"init">>]>>
                         ELSE << >>]
            ELSE [s |-> s, ev |-> << >>]
      [] eventType = TurnStarted ->
            [s |-> [s EXCEPT !.numTurns = @ + 1],
             ev |-> IF h THEN <<[ZeroEvent EXCEPT !.Type = EventAssistantStart]>>
                    ELSE << >>]
      [] eventType = TurnFailed ->
            [s |-> [s EXCEPT !.lastError = FailureMessage(payload),
                             !.resultEmitted = TRUE,
                             !.numTurns = @ + 1],
             ev |-> IF h THEN <<[ZeroEvent EXCEPT
                                   !.Type = EventResultError,
                                   !.Text = FailureMessage(payload),
                                   !.IsError = TRUE]>>
                    ELSE << >>]
      [] OTHER -> [s |-> s, ev |-> << >>]

\* the switch on eventType: the new runState and the events dispatched
LifecycleSwitch(s, eventType, payload, h) ==
    CASE eventType = ThreadStarted ->
            IF StringField(payload, "thread_id") # EmptyStr
            THEN [s |-> [s EXCEPT !.sessionID = StringField(payload, "thread_id")],
                  ev |-> IF h THEN <<[ZeroEvent EXCEPT
                                        !.Type = EventSystem,
                                        !.SessionID = StringField(payload, "thread_id"),
                                        !.Subtype = <<"init">>]>>
                         ELSE << >>]
            ELSE [s |-> s, ev |-> << >>]
      [] eventType = TurnStarted ->
            [s |-> [s EXCEPT !.numTurns = @ + 1],
             ev |-> IF h THEN <<[ZeroEvent EXCEPT !.Type = EventAssistantStart]>>
                    ELSE << >>]
      [] eventType = TurnFailed ->
            [s |-> [s EXCEPT !.lastError = FailureMessage(payload),
                             !.resultEmitted = TRUE],
             ev |-> IF h THEN <<[ZeroEvent EXCEPT
                                   !.Type = EventResultError,
                                   !.Text = FailureMessage(payload),
                                   !.IsError = TRUE]>>
                    ELSE << >>]
      [] OTHER -> [s |-> s, ev |-> << >>]

\* a harvest that adds each value to the running total
HarvestSummed(s, payload) ==
    [s EXCEPT
       !.costUSD = @ + floatField(payload, "cost_usd").v,
       !.durationMS = @ + int64Field(payload, "duration_ms").v]

\* the harvest of cost_usd and duration_ms
Harvest(s, payload) ==
    [s EXCEPT
       !.costUSD = IF floatField(payload, "cost_usd").ok
                   THEN floatField(payload, "cost_usd").v ELSE @,
       !.durationMS = IF int64Field(payload, "duration_ms").ok
                      THEN int64Field(payload, "duration_ms").v ELSE @]

\* a handleJSONLine whose runState keeps the text of the last line only
handleJSONLineLastText(s, body, h, out) ==
    IF ~UnmarshalMapOK(CodexJSON(body)) THEN [s |-> s, ev |-> << >>, out |-> EmptyStr]
    ELSE LET payload == PayloadOf(CodexJSON(body))
             eventType == StringField(payload, "type")
             sw == LifecycleSwitch(s, eventType, payload, h)
             s2 == Harvest(sw.s, payload)
             text == extractAssistantText(eventType, payload)
         IN  IF text = EmptyStr THEN [s |-> s2, ev |-> sw.ev, out |-> EmptyStr]
             ELSE [s |-> [s2 EXCEPT !.assistantText = text],
                   ev |-> IF h THEN sw.ev \o <<[ZeroEvent EXCEPT
                                                  !.Type = EventAssistant,
                                                  !.Text = text]>>
                          ELSE sw.ev,
                   out |-> IF out THEN text ELSE EmptyStr]

\* s.handleJSONLine(line, handler, outputStream): the new runState, the events
\* dispatched to the handler and the bytes written to the output stream
handleJSONLine(s, body, h, out) ==
    IF ~UnmarshalMapOK(CodexJSON(body)) THEN [s |-> s, ev |-> << >>, out |-> EmptyStr]
    ELSE LET payload == PayloadOf(CodexJSON(body))
             eventType == StringField(payload, "type")
             sw == LifecycleSwitch(s, eventType, payload, h)
             s2 == Harvest(sw.s, payload)
             text == extractAssistantText(eventType, payload)
         IN  IF text = EmptyStr THEN [s |-> s2, ev |-> sw.ev, out |-> EmptyStr]
             ELSE [s |-> [s2 EXCEPT !.assistantText = @ \o text],
                   ev |-> IF h THEN sw.ev \o <<[ZeroEvent EXCEPT
                                                  !.Type = EventAssistant,
                                                  !.Text = text]>>
                          ELSE sw.ev,
                   out |-> IF out THEN text ELSE EmptyStr]

----------------------------------------------------------------------------
(* Codex: Client.Run *)

\* the run options Run is called with (lengths for the two tool lists)
RunConfigs ==
    [MaxTurns : {0, 1}, MaxOutputTokens : {0, 1}, AllowedTools : {0, 1},
     DisallowedTools : {0, 1}, EventHandler : BOOLEAN, OutputStream : BOOLEAN]

\* rack.RunConfig{}: Run called without options
NoConfig ==
    [MaxTurns |-> 0, MaxOutputTokens |-> 0, AllowedTools |-> 0, DisallowedTools |-> 0,
     EventHandler |-> FALSE, OutputStream |-> FALSE]

\* what the operating system answers while Run sets the process up: the step
\* that failed, or "started". cmd.Start() fails with exec.ErrNotFound when
\* c.executable is a bare name that is not on PATH ("ErrNotFound"), with the
\* fork/exec no-such-file error when c.executable is a path with a separator
\* that names no file ("ErrNotExist"), or with another error ("StartError").
SpawnOutcomes ==
    {"CreateTemp", "StdoutPipe", "StderrPipe", "ErrNotFound", "ErrNotExist",
     "StartError", "started"}

\* a validation that lets a disallowed-tools list through
validateRunConfigLax(cfg) ==
    IF cfg.MaxTurns > 0 THEN "WithMaxTurns"
    ELSE IF cfg.MaxOutputTokens > 0 THEN "WithMaxOutputTokens"
    ELSE IF cfg.AllowedTools > 0 THEN "WithAllowedTools"
    ELSE "nil"

\* validateRunConfig(cfg): the unsupported option, or "nil"
validateRunConfig(cfg) ==
    IF cfg.MaxTurns > 0 THEN "WithMaxTurns"
    ELSE IF cfg.MaxOutputTokens > 0 THEN "WithMaxOutputTokens"
    ELSE IF cfg.AllowedTools > 0 THEN "WithAllowedTools"
    ELSE IF cfg.DisallowedTools > 0 THEN "WithDisallowedTools"
    ELSE "nil"

\* a Run that reports every failed start as an ExitError
SpawnErrorGeneric(outcome) ==
    CASE outcome \in {"ErrNotFound", "ErrNotExist", "StartError"} -> "ExitError"
      [] OTHER -> outcome

\* the error of a process that did not start
SpawnError(outcome) ==
    CASE outcome = "ErrNotFound" -> "ErrCLINotFound"
      [] outcome \in {"ErrNotExist", "StartError"} -> "ExitError"
      [] OTHER -> outcome

\* handler := c.eventHandler; if cfg.EventHandler != nil { handler = cfg.EventHandler }
ResolveHandler(clientHandler, runHandler) == clientHandler \/ runHandler

\* a Run that leaves the last-message file behind
DeferredRemoveForgotten(file) == file

\* defer os.Remove(lastMsgPath), run when Run returns
DeferredRemove(file) == IF file = "created" THEN "removed" ELSE file

\* Run up to the start of the decode loop: an early return, or the loop entered
CodexStart ==
    /\ pc = "idle"
    /\ adapter = "codex"
    /\ \E c \in RunConfigs, outcome \in SpawnOutcomes :
          /\ runConfig' = c
          /\ IF validateRunConfig(c) # "nil"
             THEN /\ pc' = "done"
                  /\ ret' = Return(EmptyStr, "UnsupportedOptionError",
                                   validateRunConfig(c), EmptyStr)
                  /\ UNCHANGED <<handler, outputStream, spawn, lastMsgFile>>
             ELSE IF outcome = "CreateTemp"
             THEN /\ pc' = "done"
                  /\ ret' = Return(EmptyStr, SpawnError(outcome), "", EmptyStr)
                  /\ spawn' = outcome
                  /\ UNCHANGED <<handler, outputStream, lastMsgFile>>
             ELSE IF outcome # "started"
             THEN /\ pc' = "done"
                  /\ ret' = Return(EmptyStr, SpawnError(outcome), "", EmptyStr)
                  /\ spawn' = outcome
                  /\ lastMsgFile' = DeferredRemove("created")
                  /\ UNCHANGED <<handler, outputStream>>
             ELSE /\ pc' = "running"
                  /\ handler' = ResolveHandler(eventHandler, c.EventHandler)
                  /\ outputStream' = c.OutputStream
                  /\ spawn' = outcome
                  /\ lastMsgFile' = "created"
                  /\ UNCHANGED ret
    /\ UNCHANGED <<adapter, eventHandler, observability, consumed, state, stderrBuf,
                   resultText, sessionID, events, records, streamOut, exit>>
    /\ UNCHANGED <<streamVars, slackVars, auxVars>>

\* a decode loop that takes an undecodable stderr line for the run's error
ConsumeStderrAsError(s, buf, line, h, out) ==
    IF ~Valid(line.body)
    THEN [s |-> IF line.fromStderr THEN [s EXCEPT !.lastError = <<line.body>>] ELSE s,
          buf |-> IF line.fromStderr THEN buf \o <<line.body, "\n">> ELSE buf,
          ev |-> << >>, out |-> EmptyStr]
    ELSE LET r == handleJSONLine(s, line.body, h, out)
         IN  [s |-> r.s, buf |-> buf, ev |-> r.ev, out |-> r.out]

\* a decode loop that handles lines only for a handler to see
ConsumeOnlyWithHandler(s, buf, line, h, out) ==
    IF ~Valid(line.body)
    THEN [s |-> s,
          buf |-> IF line.fromStderr THEN buf \o <<line.body, "\n">> ELSE buf,
          ev |-> << >>, out |-> EmptyStr]
    ELSE IF ~h THEN [s |-> s, buf |-> buf, ev |-> << >>, out |-> EmptyStr]
    ELSE LET r == handleJSONLine(s, line.body, h, out)
         IN  [s |-> r.s, buf |-> buf, ev |-> r.ev, out |-> r.out]

\* the body of the decode loop for one line: the new runState and stderrBuf,
\* the events dispatched and the bytes written to the output stream
Consume(s, buf, line, h, out) ==
    IF ~Valid(line.body)
    THEN [s |-> s,
          buf |-> IF line.fromStderr THEN buf \o <<line.body, "\n">> ELSE buf,
          ev |-> << >>, out |-> EmptyStr]
    ELSE LET r == handleJSONLine(s, line.body, h, out)
         IN  [s |-> r.s, buf |-> buf, ev |-> r.ev, out |-> r.out]

\* one iteration of `for line := range lines`
CodexLine ==
    /\ pc = "running"
    /\ adapter = "codex"
    /\ Len(consumed) < MaxLines
    /\ \E line \in CodexLines :
          LET r == Consume(state, stderrBuf, line, handler, outputStream)
          IN  /\ consumed' = Append(consumed, line)
              /\ state' = r.s
              /\ stderrBuf' = r.buf
              /\ events' = events \o r.ev
              /\ streamOut' = streamOut \o r.out
    /\ UNCHANGED <<adapter, eventHandler, observability, pc, handler, outputStream,
                   resultText, sessionID, records, exit, ret, runConfig, spawn, lastMsgFile>>
    /\ UNCHANGED <<streamVars, slackVars, auxVars>>

\* a Run that wraps the wait error without looking at the context
CanceledNotChecked(x) == FALSE

\* err != nil && ctx.Err() != nil
Canceled(x) == x.waitErr /\ x.ctxErr

\* an exit path that does not look at resultEmitted
SynthesizesUnguarded(h, s) == h

\* handler != nil && !state.resultEmitted
SynthesizesTerminal(h, s) == h /\ ~s.resultEmitted

\* a result text that takes a blank last-message file for the answer
ResultTextUntrimmed(s, x) ==
    IF x.lastMsgOK /\ x.lastMsg # EmptyStr THEN x.lastMsg ELSE s.assistantText

\* resultText: the last-message file if it reads and is not blank, else the
\* streamed assistant text
ResultTextOf(s, x) ==
    IF x.lastMsgOK /\ TrimSpace(x.lastMsg) # EmptyStr THEN x.lastMsg
    ELSE s.assistantText

\* Run after the decode loop: the events and records dispatched and the return
CodexFinish(s, buf, h, obs, x) ==
    IF Canceled(x)
    THEN [ev |-> << >>, rec |-> << >>, ret |-> Return(EmptyStr, "ctx.Err", "", EmptyStr)]
    ELSE IF x.waitErr
    THEN [ev |-> IF SynthesizesTerminal(h, s)
                 THEN <<[ZeroEvent EXCEPT !.Type = EventResultError,
                                          !.Text = s.lastError]>>
                 ELSE << >>,
          rec |-> IF obs
                  THEN <<CompletionRecord(s.sessionID, s.lastError, s.costUSD,
                                          s.durationMS, s.numTurns, TRUE)>>
                  ELSE << >>,
          ret |-> Return(EmptyStr, "ExitError", "", buf)]
    ELSE [ev |-> IF SynthesizesTerminal(h, s)
                 THEN <<[ZeroEvent EXCEPT !.Type = EventResult,
                                          !.Text = ResultTextOf(s, x),
                                          !.CostUSD = s.costUSD,
                                          !.Duration = s.durationMS,
                                          !.NumTurns = s.numTurns]>>
                 ELSE << >>,
          rec |-> IF obs
                  THEN <<CompletionRecord(s.sessionID, ResultTextOf(s, x), s.costUSD,
                                          s.durationMS, s.numTurns, FALSE)>>
                  ELSE << >>,
          ret |-> Return(ResultTextOf(s, x), "nil", "", EmptyStr)]

\* the ends of a codex process: Wait fails with the context canceled or not
\* (the file is not read), or Wait succeeds (ctx.Err() is not read)
CodexExits ==
    {Exit(TRUE, c, FALSE, EmptyStr, EmptyStr) : c \in BOOLEAN}
        \cup {Exit(FALSE, FALSE, f.ok, f.data, EmptyStr) : f \in LastMsgFiles}

\* the lines channel is closed; cmd.Wait() and the rest of Run
CodexWait ==
    /\ pc = "running"
    /\ adapter = "codex"
    /\ \E x \in CodexExits :
          LET r == CodexFinish(state, stderrBuf, handler, observability, x)
          IN  /\ exit' = x
              /\ events' = events \o r.ev
              /\ records' = records \o r.rec
              /\ ret' = r.ret
    /\ pc' = "done"
    /\ lastMsgFile' = DeferredRemove(lastMsgFile)
    /\ UNCHANGED <<adapter, eventHandler, observability, handler, outputStream, consumed,
                   state, stderrBuf, resultText, sessionID, streamOut, runConfig, spawn>>
    /\ UNCHANGED <<streamVars, slackVars, auxVars>>

----------------------------------------------------------------------------
(* Codex: several calls of Run at once on one Client *)

\* a Run among those in progress at once decodes this many lines at most
MaxRunLines == 2

\* the calls of Run in progress at once
RunIDs == {1, 2}

\* the lines the child of such a Run writes
ClientRunLines ==
    {line \in CodexLines :
        \/ ~line.fromStderr /\ line.body \in
                {"{type:turn.started}",
                 "{type:assistant.message.delta,delta:hello }",
                 "{type:turn.failed}"}
        \/ line.fromStderr /\ line.body = "oops"}

\* the ends of its process: killed by the cancellation, failed, or a clean
\* exit with a last-message file that is missing or holds the answer
ClientRunExits ==
    {x \in CodexExits : x.waitErr \/ ~x.lastMsgOK \/ x.lastMsg = <<"final">>}

\* the locals of a call of Run that has not begun: handler, cfg.OutputStream,
\* state, stderrBuf, what it has dispatched and what it returned
NoRun ==
    [pc |-> "idle", handler |-> FALSE, outputStream |-> FALSE, consumed |-> << >>,
     state |-> ZeroRunState, stderrBuf |-> EmptyStr, events |-> << >>,
     records |-> << >>, streamOut |-> EmptyStr, exit |-> NoExit, ret |-> NoReturn]

RunsIdle == runs = [r \in RunIDs |-> NoRun]

\* one runState, of the Client, that every Run decodes into
RunStateOfClient(rs, r) == rs[1].state

\* state := runState{}, a local of the call
RunStateOf(rs, r) == rs[r].state

\* Run up to the decode loop, for options that validate and a process that
\* started
ClientRunStart ==
    /\ \E r \in RunIDs, runHandler \in BOOLEAN, out \in BOOLEAN :
         /\ runs[r].pc = "idle"
         /\ runs' = [runs EXCEPT ![r] = [NoRun EXCEPT
                        !.pc = "running",
                        !.handler = ResolveHandler(eventHandler, runHandler),
                        !.outputStream = out]]
    /\ UNCHANGED <<coreVars, notifierVars, belayVars, loggerVars, slackHandlerVars>>

\* one iteration of the decode loop of one of the Runs
ClientRunLine ==
    /\ \E r \in RunIDs, line \in ClientRunLines :
         /\ runs[r].pc = "running"
         /\ Len(runs[r].consumed) < MaxRunLines
         /\ LET d == Consume(RunStateOf(runs, r), runs[r].stderrBuf, line,
                             runs[r].handler, runs[r].outputStream)
            IN runs' = [runs EXCEPT
                          ![r].consumed = Append(@, line),
                          ![r].state = d.s,
                          ![r].stderrBuf = d.buf,
                          ![r].events = @ \o d.ev,
                          ![r].streamOut = @ \o d.out]
    /\ UNCHANGED <<coreVars, notifierVars, belayVars, loggerVars, slackHandlerVars>>

\* cmd.Wait() and the rest of one of the Runs
ClientRunWait ==
    /\ \E r \in RunIDs, x \in ClientRunExits :
         /\ runs[r].pc = "running"
         /\ LET f == CodexFinish(RunStateOf(runs, r), runs[r].stderrBuf,
                                 runs[r].handler, observability, x)
            IN runs' = [runs EXCEPT
                          ![r].pc = "done",
                          ![r].exit = x,
                          ![r].events = @ \o f.ev,
                          ![r].records = @ \o f.rec,
                          ![r].ret = f.ret]
    /\ UNCHANGED <<coreVars, notifierVars, belayVars, loggerVars, slackHandlerVars>>

----------------------------------------------------------------------------
(* Claude: the lines a child process can write on stdout *)

ClaudeJSON(body) ==
    CASE body = "not json" -> JInvalid
      [] body = "{type:system,subtype:init,session_id:s1}" ->
            JObj([type |-> JStr(<<"system">>), subtype |-> JStr(<<"init">>),
                  session_id |-> JStr(<<"s1">>)])
      [] body = "{type:assistant,message:{content:[text Hi ,tool_use Bash]}}" ->
            JObj([type |-> JStr(<<"assistant">>),
                  message |-> JObj([content |-> JArr(<<
                      JObj([type |-> JStr(<<"text">>), text |-> JStr(<<"Hi ">>)]),
                      JObj([type |-> JStr(<<"tool_use">>), name |-> JStr(<<"Bash">>),
                            id |-> JStr(<<"tu1">>)])>>)])])
      [] body = "{type:assistant,message:{content:[text there]}}" ->
            JObj([type |-> JStr(<<"assistant">>),
                  message |-> JObj([content |-> JArr(<<
                      JObj([type |-> JStr(<<"text">>), text |-> JStr(<<"there">>)])>>)])])
      [] body = "{type:user,message:{content:[tool_result tu1]}}" ->
            JObj([type |-> JStr(<<"user">>),
                  message |-> JObj([content |-> JArr(<<
                      JObj([type |-> JStr(<<"tool_result">>),
                            tool_use_id |-> JStr(<<"tu1">>),
                            content |-> JStr(<<"ok">>)])>>)])])
      [] body = "{type:user,message:{content:[tool_result tu1,text note,tool_result tu2]}}" ->
            JObj([type |-> JStr(<<"user">>),
                  message |-> JObj([content |-> JArr(<<
                      JObj([type |-> JStr(<<"tool_result">>),
                            tool_use_id |-> JStr(<<"tu1">>),
                            content |-> JStr(<<"ok">>)]),
                      JObj([type |-> JStr(<<"text">>), text |-> JStr(<<"note">>)]),
                      JObj([type |-> JStr(<<"tool_result">>),
                            tool_use_id |-> JStr(<<"tu2">>),
                            content |-> JStr(<<"failed">>)])>>)])])
      [] body = "{type:user,message:{content:[tool_result tu1 [text ok]]}}" ->
            JObj([type |-> JStr(<<"user">>),
                  message |-> JObj([content |-> JArr(<<
                      JObj([type |-> JStr(<<"tool_result">>),
                            tool_use_id |-> JStr(<<"tu1">>),
                            content |-> JArr(<<
                                JObj([type |-> JStr(<<"text">>),
                                      text |-> JStr(<<"ok">>)])>>)])>>)])])
      [] body = "{type:user,message:{content:[text note]}}" ->
            JObj([type |-> JStr(<<"user">>),
                  message |-> JObj([content |-> JArr(<<
                      JObj([type |-> JStr(<<"text">>), text |-> JStr(<<"note">>)])>>)])])
      [] body = "{type:result,result:done,cost_usd:0.5,duration_ms:12,num_turns:2}" ->
            JObj([type |-> JStr(<<"result">>), result |-> JStr(<<"done">>),
                  cost_usd |-> JNum(1), duration_ms |-> JNum(24),
                  num_turns |-> JNum(4)])
      [] body = "{type:result,subtype:success,result:again}" ->
            JObj([type |-> JStr(<<"result">>), subtype |-> JStr(<<"success">>),
                  result |-> JStr(<<"again">>)])
      [] body = "{type:result,result:failed,is_error:true}" ->
            JObj([type |-> JStr(<<"result">>), result |-> JStr(<<"failed">>),
                  is_error |-> JBool(TRUE)])
      [] body = "{type:result,subtype:error,result:bad}" ->
            JObj([type |-> JStr(<<"result">>), subtype |-> JStr(<<"error">>),
                  result |-> JStr(<<"bad">>)])
      [] OTHER -> JInvalid

ClaudeBodies ==
    {"not json",
     "{type:system,subtype:init,session_id:s1}",
     "{type:assistant,message:{content:[text Hi ,tool_use Bash]}}",
     "{type:assistant,message:{content:[text there]}}",
     "{type:user,message:{content:[tool_result tu1]}}",
     "{type:user,message:{content:[tool_result tu1,text note,tool_result tu2]}}",
     "{type:user,message:{content:[tool_result tu1 [text ok]]}}",
     "{type:user,message:{content:[text note]}}",
     "{type:result,result:done,cost_usd:0.5,duration_ms:12,num_turns:2}",
     "{type:result,subtype:success,result:again}",
     "{type:result,result:failed,is_error:true}",
     "{type:result,subtype:error,result:bad}"}

\* what is left on stderr when stdout has ended
ClaudeStderrTexts == {EmptyStr, <<"fatal">>}

----------------------------------------------------------------------------
(* Claude: json.Unmarshal into streamEvent *)

\* a JSON value decodes into a Go field of the type: null and a missing key
\* leave the field at its zero value
FieldOK(m, key, type) == Get(m, key).t \in {"absent", "null", type}

\* a JSON number decodes into an integer field: it has no fraction
IntFieldOK(m, key) ==
    Get(m, key).t \in {"absent", "null"}
        \/ (Get(m, key).t = "number" /\ Get(m, key).v % 2 = 0)

IntField(m, key) == IF Get(m, key).t = "number" THEN Get(m, key).v \div 2 ELSE 0
FloatField(m, key) == IF Get(m, key).t = "number" THEN Get(m, key).v ELSE 0
BoolField(m, key) == IF Get(m, key).t = "bool" THEN Get(m, key).v ELSE FALSE

\* a content block decodes into contentBlock
BlockOK(b) ==
    \/ b.t = "null"
    \/ /\ b.t = "object"
       /\ \A key \in {"type", "text", "id", "name", "tool_use_id", "content"} :
             FieldOK(b.v, key, "string")

\* contentBlock
BlockOf(b) ==
    LET m == PayloadOf(b) IN
    [Type |-> StringField(m, "type"), Text |-> StringField(m, "text"),
     ID |-> StringField(m, "id"), Name |-> StringField(m, "name"),
     ToolUseID |-> StringField(m, "tool_use_id"), Content |-> StringField(m, "content")]

\* the message decodes into *streamMessage
MessageOK(x) ==
    \/ x.t \in {"absent", "null"}
    \/ /\ x.t = "object"
       /\ Get(x.v, "content").t \in {"absent", "null", "array"}
       /\ Get(x.v, "content").t = "array" =>
             \A i \in 1..Len(Get(x.v, "content").v) : BlockOK(Get(x.v, "content").v[i])

\* *streamMessage: nil, or its content blocks
MessageOf(x) ==
    IF x.t # "object" THEN [present |-> FALSE, Content |-> << >>]
    ELSE [present |-> TRUE,
          Content |-> IF Get(x.v, "content").t = "array"
                      THEN [i \in 1..Len(Get(x.v, "content").v) |->
                                BlockOf(Get(x.v, "content").v[i])]
                      ELSE << >>]

\* json.Unmarshal(line, &event) returns nil
UnmarshalEventOK(j) ==
    \/ j.t = "null"
    \/ /\ j.t = "object"
       /\ \A key \in {"type", "subtype", "session_id", "result"} :
             FieldOK(j.v, key, "string")
       /\ MessageOK(Get(j.v, "message"))
       /\ FieldOK(j.v, "cost_usd", "number")
       /\ IntFieldOK(j.v, "duration_ms")
       /\ IntFieldOK(j.v, "num_turns")
       /\ FieldOK(j.v, "is_error", "bool")

\* streamEvent as json.Unmarshal fills it
StreamEventOf(j) ==
    LET m == PayloadOf(j) IN
    [Type |-> StringField(m, "type"), Subtype |-> StringField(m, "subtype"),
     SessionID |-> StringField(m, "session_id"),
     Message |-> MessageOf(Get(m, "message")),
     Result |-> StringField(m, "result"),
     CostUSD |-> FloatField(m, "cost_usd"), DurationMS |-> IntField(m, "duration_ms"),
     NumTurns |-> IntField(m, "num_turns"), IsError |-> BoolField(m, "is_error")]

----------------------------------------------------------------------------
(* Claude: Client.Run *)

\* case "assistant": the events and output-stream bytes of the content blocks
RECURSIVE AssistantBlocks(_, _, _)
AssistantBlocks(content, h, out) ==
    IF content = << >> THEN [ev |-> << >>, out |-> EmptyStr]
    ELSE LET block == Head(content)
             rest == AssistantBlocks(Tail(content), h, out)
             this ==
                CASE block.Type = <<"text">> ->
                        [ev |-> IF h THEN <<[ZeroEvent EXCEPT !.Type = EventAssistant,
                                                              !.Text = block.Text]>>
                                ELSE << >>,
                         out |-> IF out THEN block.Text ELSE EmptyStr]
                  [] block.Type = <<"tool_use">> ->
                        [ev |-> IF h THEN <<[ZeroEvent EXCEPT !.Type = EventToolUse,
                                                              !.ToolName = block.Name,
                                                              !.ToolID = block.ID]>>
                                ELSE << >>,
                         out |-> EmptyStr]
                  [] OTHER -> [ev |-> << >>, out |-> EmptyStr]
         IN  [ev |-> this.ev \o rest.ev, out |-> this.out \o rest.out]

\* case "user": one ToolResult event for each tool_result block
RECURSIVE ToolResults(_, _)
ToolResults(content, h) ==
    IF content = << >> THEN << >>
    ELSE (IF Head(content).Type = <<"tool_result">> /\ h
          THEN <<[ZeroEvent EXCEPT !.Type = EventToolResult,
                                   !.Text = Head(content).Content,
                                   !.ToolID = Head(content).ToolUseID]>>
          ELSE << >>) \o ToolResults(Tail(content), h)

hadToolResults(content) ==
    \E i \in 1..Len(content) : content[i].Type = <<"tool_result">>

\* isError := event.IsError || event.Subtype == "error"
ResultIsError(event) == event.IsError \/ event.Subtype = <<"error">>

\* the body of the scan loop for one stdout line: the new resultText and
\* sessionID, the events and records dispatched, the output-stream bytes
ClaudeConsume(rt, sid, body, h, obs, out) ==
    IF ~UnmarshalEventOK(ClaudeJSON(body))
    THEN [resultText |-> rt, sessionID |-> sid, ev |-> << >>, rec |-> << >>,
          out |-> EmptyStr]
    ELSE LET event == StreamEventOf(ClaudeJSON(body)) IN
      CASE event.Type = <<"system">> ->
            [resultText |-> rt,
             sessionID |-> IF event.SessionID # EmptyStr THEN event.SessionID ELSE sid,
             ev |-> IF ~h THEN << >>
                    ELSE <<[ZeroEvent EXCEPT !.Type = EventSystem,
                                             !.SessionID = event.SessionID,
                                             !.Subtype = event.Subtype]>>
                         \o (IF event.Subtype = <<"init">>
                             THEN <<[ZeroEvent EXCEPT !.Type = EventAssistantStart]>>
                             ELSE << >>),
             rec |-> << >>, out |-> EmptyStr]
        [] event.Type = <<"assistant">> ->
            [resultText |-> rt, sessionID |-> sid,
             ev |-> IF event.Message.present
                    THEN AssistantBlocks(event.Message.Content, h, out).ev ELSE << >>,
             rec |-> << >>,
             out |-> IF event.Message.present
                     THEN AssistantBlocks(event.Message.Content, h, out).out
                     ELSE EmptyStr]
        [] event.Type = <<"user">> ->
            [resultText |-> rt, sessionID |-> sid,
             ev |-> IF event.Message.present
                    THEN ToolResults(event.Message.Content, h)
                         \o (IF hadToolResults(event.Message.Content) /\ h
                             THEN <<[ZeroEvent EXCEPT !.Type = EventAssistantStart]>>
                             ELSE << >>)
                    ELSE << >>,
             rec |-> << >>, out |-> EmptyStr]
        [] event.Type = <<"result">> ->
            [resultText |-> event.Result, sessionID |-> sid,
             ev |-> IF h
                    THEN <<[ZeroEvent EXCEPT
                              !.Type = IF ResultIsError(event) THEN EventResultError
                                       ELSE EventResult,
                              !.Text = event.Result,
                              !.Subtype = event.Subtype,
                              !.CostUSD = event.CostUSD,
                              !.Duration = event.DurationMS,
                              !.NumTurns = event.NumTurns,
                              !.IsError = ResultIsError(event)]>>
                    ELSE << >>,
             rec |-> IF obs
                     THEN <<CompletionRecord(sid, event.Result, event.CostUSD,
                                             event.DurationMS, event.NumTurns,
                                             ResultIsError(event))>>
                     ELSE << >>,
             out |-> EmptyStr]
        [] OTHER ->
            [resultText |-> rt, sessionID |-> sid, ev |-> << >>, rec |-> << >>,
             out |-> EmptyStr]

\* Run up to the start of the scan loop: an early return, or the loop entered
ClaudeStart ==
    /\ pc = "idle"
    /\ adapter = "claude"
    /\ \E c \in RunConfigs, outcome \in SpawnOutcomes \ {"CreateTemp"} :
          /\ spawn' = outcome
          /\ IF outcome # "started"
             THEN /\ pc' = "done"
                  /\ ret' = Return(EmptyStr, SpawnError(outcome), "", EmptyStr)
                  /\ UNCHANGED <<handler, outputStream>>
             ELSE /\ pc' = "running"
                  /\ handler' = ResolveHandler(eventHandler, c.EventHandler)
                  /\ outputStream' = c.OutputStream
                  /\ UNCHANGED ret
    /\ UNCHANGED <<adapter, eventHandler, observability, consumed, state, stderrBuf,
                   resultText, sessionID, events, records, streamOut, exit, runConfig,
                   lastMsgFile>>
    /\ UNCHANGED <<streamVars, slackVars, auxVars>>

\* one iteration of `for scanner.Scan()`
ClaudeLine ==
    /\ pc = "running"
    /\ adapter = "claude"
    /\ Len(consumed) < MaxLines
    /\ \E body \in ClaudeBodies :
          LET r == ClaudeConsume(resultText, sessionID, body, handler, observability,
                                 outputStream)
          IN  /\ consumed' = Append(consumed, [body |-> body, fromStderr |-> FALSE])
              /\ resultText' = r.resultText
              /\ sessionID' = r.sessionID
              /\ events' = events \o r.ev
              /\ records' = records \o r.rec
              /\ streamOut' = streamOut \o r.out
    /\ UNCHANGED <<adapter, eventHandler, observability, pc, handler, outputStream,
                   state, stderrBuf, exit, ret, runConfig, spawn, lastMsgFile>>
    /\ UNCHANGED <<streamVars, slackVars, auxVars>>

\* a Run that drops the stderr text from its ExitError
ClaudeFinishWithoutStderr(rt, x) ==
    IF x.waitErr /\ x.ctxErr THEN Return(EmptyStr, "ctx.Err", "", EmptyStr)
    ELSE IF x.waitErr THEN Return(EmptyStr, "ExitError", "", EmptyStr)
    ELSE Return(rt, "nil", "", EmptyStr)

\* a Run that takes an exit without result text for a failure
ClaudeFinishNeedsResult(rt, x) ==
    IF x.waitErr /\ x.ctxErr THEN Return(EmptyStr, "ctx.Err", "", EmptyStr)
    ELSE IF x.waitErr \/ rt = EmptyStr THEN Return(EmptyStr, "ExitError", "", x.stderr)
    ELSE Return(rt, "nil", "", EmptyStr)

\* Run after the scan loop: what it returns
ClaudeFinish(rt, x) ==
    IF Canceled(x) THEN Return(EmptyStr, "ctx.Err", "", EmptyStr)
    ELSE IF x.waitErr THEN Return(EmptyStr, "ExitError", "", x.stderr)
    ELSE Return(rt, "nil", "", EmptyStr)

\* the ends of a claude process: stderr is read to its end, then Wait fails
\* with the context canceled or not, or succeeds (ctx.Err() is not read)
ClaudeExits ==
    {Exit(TRUE, c, FALSE, EmptyStr, e) : c \in BOOLEAN, e \in ClaudeStderrTexts}
        \cup {Exit(FALSE, FALSE, FALSE, EmptyStr, e) : e \in ClaudeStderrTexts}

\* stdout has ended: stderrBuf.ReadFrom(stderr), cmd.Wait() and the return
ClaudeWait ==
    /\ pc = "running"
    /\ adapter = "claude"
    /\ \E x \in ClaudeExits :
          /\ exit' = x
          /\ ret' = ClaudeFinish(resultText, x)
    /\ pc' = "done"
    /\ UNCHANGED <<adapter, eventHandler, observability, handler, outputStream, consumed,
                   state, stderrBuf, resultText, sessionID, events, records, streamOut,
                   runConfig, spawn, lastMsgFile>>
    /\ UNCHANGED <<streamVars, slackVars, auxVars>>

----------------------------------------------------------------------------
(* The child process, its two pipes, and how each Run drains them *)

\* the most lines a child writes to one stream
MaxWrites == 2

\* the lines a pipe holds before a write to it blocks
PipeCap == 1

\* the lines the channel of streamLines buffers (make(chan streamLine, 64))
ChanCap == 2

Streams == {"out", "err"}

\* a line longer than the scanner's buffer (scanner.Buffer(..., 1024*1024))
TooLong == "long"

\* the lines a child writes to a stream
StreamBodies(a, r) ==
    CASE a = "codex" /\ r = "out" ->
            {"{type:turn.started}", "{type:assistant.message.delta,delta:hello }",
             TooLong}
      [] a = "codex" /\ r = "err" -> {"oops", TooLong}
      [] a = "claude" /\ r = "out" ->
            {"{type:assistant,message:{content:[text there]}}",
             "{type:result,result:done,cost_usd:0.5,duration_ms:12,num_turns:2}",
             TooLong}
      [] OTHER -> {"fatal"}

SeqsUpTo(S, n) == UNION {[1..k -> S] : k \in 0..n}

\* what a child writes: its stdout lines and its stderr lines, each in order
Scripts(a) ==
    [out : SeqsUpTo(StreamBodies(a, "out"), MaxWrites),
     err : SeqsUpTo(StreamBodies(a, "err"), MaxWrites)]

\* a goroutine of streamLines: scanning, sending a line, or returned
ReaderAt(where, body) == [pc |-> where, body |-> body]

\* no process, no pipes, no goroutines
StreamIdle ==
    /\ script = [out |-> << >>, err |-> << >>]
    /\ written = [out |-> 0, err |-> 0]
    /\ childExited = FALSE
    /\ pipe = [out |-> << >>, err |-> << >>]
    /\ reader = [out |-> ReaderAt("off", ""), err |-> ReaderAt("off", "")]
    /\ lineChan = << >>
    /\ linesClosed = FALSE
    /\ sent = << >>
    /\ canceled = FALSE

\* the child writes its next line of one stream; the write blocks while the
\* pipe is full
ChildWrite ==
    /\ pc \in {"running", "stderr"}
    /\ ~childExited
    /\ \E r \in Streams :
          /\ written[r] < Len(script[r])
          /\ Len(pipe[r]) < PipeCap
          /\ pipe' = [pipe EXCEPT ![r] = Append(@, script[r][written[r] + 1])]
          /\ written' = [written EXCEPT ![r] = @ + 1]
    /\ UNCHANGED <<runVars, slackVars, auxVars, script, childExited, reader, lineChan, linesClosed,
                   sent, canceled>>

\* the child has written everything and exits
ChildExit ==
    /\ pc \in {"running", "stderr"}
    /\ ~childExited
    /\ \A r \in Streams : written[r] = Len(script[r])
    /\ childExited' = TRUE
    /\ UNCHANGED <<runVars, slackVars, auxVars, script, written, pipe, reader, lineChan,
                   linesClosed, sent, canceled>>

\* ctx is canceled while the child runs: exec.CommandContext kills the child
Cancel ==
    /\ pc \in {"running", "stderr"}
    /\ ~childExited
    /\ canceled' = TRUE
    /\ childExited' = TRUE
    /\ UNCHANGED <<runVars, slackVars, auxVars, script, written, pipe, reader, lineChan,
                   linesClosed, sent>>

\* scanner.Scan() of a reader goroutine: a line to send, or the end of the
\* goroutine at EOF or at a line that does not fit the buffer
ReaderScan ==
    /\ \E r \in Streams :
          /\ reader[r].pc = "scan"
          /\ IF pipe[r] # << >>
             THEN /\ pipe' = [pipe EXCEPT ![r] = Tail(@)]
                  /\ reader' = [reader EXCEPT ![r] =
                                   IF Head(pipe[r]) = TooLong THEN ReaderAt("done", "")
                                   ELSE ReaderAt("send", Head(pipe[r]))]
             ELSE /\ childExited
                  /\ reader' = [reader EXCEPT ![r] = ReaderAt("done", "")]
                  /\ UNCHANGED pipe
    /\ UNCHANGED <<runVars, slackVars, auxVars, script, written, childExited, lineChan,
                   linesClosed, sent, canceled>>

\* a read of the pipe fails (an I/O error): scanner.Scan() returns false and
\* the goroutine ends; the read end of the pipe stays open until cmd.Wait
ReadFault ==
    /\ adapter = "codex"
    /\ \E r \in Streams :
          /\ reader[r].pc = "scan"
          /\ ~childExited \/ pipe[r] # << >>
          /\ reader' = [reader EXCEPT ![r] = ReaderAt("done", "read error")]
    /\ UNCHANGED <<runVars, slackVars, auxVars, script, written, childExited, pipe,
                   lineChan, linesClosed, sent, canceled>>

\* every line is tagged as a stdout line
TaggedStdout(body, r) == [body |-> body, fromStderr |-> FALSE]

\* streamLine{body: scanner.Text(), fromStderr: fromStderr}
Tagged(body, r) == [body |-> body, fromStderr |-> r = "err"]

\* out <- streamLine{...}; blocks while the channel is full
ReaderSend ==
    /\ \E r \in Streams :
          /\ reader[r].pc = "send"
          /\ Len(lineChan) < ChanCap
          /\ lineChan' = Append(lineChan, Tagged(reader[r].body, r))
          /\ sent' = Append(sent, Tagged(reader[r].body, r))
          /\ reader' = [reader EXCEPT ![r] = ReaderAt("scan", "")]
    /\ UNCHANGED <<runVars, slackVars, auxVars, script, written, childExited, pipe,
                   linesClosed, canceled>>

\* a closer that does not wait at all
ReadersJoinedNoWait(rd) == TRUE

\* a closer that does not wait for both readers
ReadersJoinedEither(rd) == rd.out.pc = "done" \/ rd.err.pc = "done"

\* wg.Wait() returns: both readers have called wg.Done()
ReadersJoined(rd) == rd.out.pc = "done" /\ rd.err.pc = "done"

\* go func() { wg.Wait(); close(out) }()
CloseLines ==
    /\ adapter = "codex"
    /\ ~linesClosed
    /\ ReadersJoined(reader)
    /\ linesClosed' = TRUE
    /\ UNCHANGED <<runVars, slackVars, auxVars, script, written, childExited, pipe, reader,
                   lineChan, sent, canceled>>

\* a receive that takes the newest line of the channel
DequeueNewest(ch) == [line |-> ch[Len(ch)], rest |-> SubSeq(ch, 1, Len(ch) - 1)]

\* a receive from the channel: the oldest line, and the lines still buffered
Dequeue(ch) == [line |-> Head(ch), rest |-> Tail(ch)]

\* one iteration of `for line := range lines`, the line received from the channel
StreamCodexLine ==
    /\ pc = "running"
    /\ adapter = "codex"
    /\ lineChan # << >>
    /\ LET d == Dequeue(lineChan)
           r == Consume(state, stderrBuf, d.line, handler, outputStream)
       IN  /\ lineChan' = d.rest
           /\ consumed' = Append(consumed, d.line)
           /\ state' = r.s
           /\ stderrBuf' = r.buf
           /\ events' = events \o r.ev
           /\ streamOut' = streamOut \o r.out
    /\ UNCHANGED <<adapter, eventHandler, observability, pc, handler, outputStream,
                   resultText, sessionID, records, exit, ret, runConfig, spawn,
                   lastMsgFile>>
    /\ UNCHANGED <<slackVars, auxVars, script, written, childExited, pipe, reader, linesClosed,
                   sent, canceled>>

\* the ends of the process that cmd.Wait() can report: a killed child fails
\* the wait with ctx canceled
ExitsOf(exits) ==
    {x \in exits : IF canceled THEN x.waitErr /\ x.ctxErr ELSE ~x.ctxErr}

\* the channel is closed and empty: the loop ends; cmd.Wait() returns once the
\* child has exited; the rest of Run
StreamCodexWait ==
    /\ pc = "running"
    /\ adapter = "codex"
    /\ lineChan = << >> /\ linesClosed
    /\ childExited
    /\ \E x \in ExitsOf(CodexExits) :
          LET r == CodexFinish(state, stderrBuf, handler, observability, x)
          IN  /\ exit' = x
              /\ events' = events \o r.ev
              /\ records' = records \o r.rec
              /\ ret' = r.ret
    /\ pc' = "done"
    /\ lastMsgFile' = DeferredRemove(lastMsgFile)
    /\ UNCHANGED <<adapter, eventHandler, observability, handler, outputStream, consumed,
                   state, stderrBuf, resultText, sessionID, streamOut, runConfig, spawn>>
    /\ UNCHANGED <<streamVars, slackVars, auxVars>>

\* claude: one scanner.Scan() on stdout by Run itself: a line handled, or the
\* end of the loop at EOF or at a line that does not fit the buffer
StreamClaudeLine ==
    /\ pc = "running"
    /\ adapter = "claude"
    /\ IF pipe.out # << >>
       THEN /\ pipe' = [pipe EXCEPT !.out = Tail(@)]
            /\ IF Head(pipe.out) = TooLong
               THEN /\ pc' = "stderr"
                    /\ UNCHANGED <<consumed, resultText, sessionID, events, records,
                                   streamOut>>
               ELSE LET r == ClaudeConsume(resultText, sessionID, Head(pipe.out),
                                           handler, observability, outputStream)
                    IN  /\ consumed' = Append(consumed, [body |-> Head(pipe.out),
                                                         fromStderr |-> FALSE])
                        /\ resultText' = r.resultText
                        /\ sessionID' = r.sessionID
                        /\ events' = events \o r.ev
                        /\ records' = records \o r.rec
                        /\ streamOut' = streamOut \o r.out
                        /\ UNCHANGED pc
       ELSE /\ childExited
            /\ pc' = "stderr"
            /\ UNCHANGED <<pipe, consumed, resultText, sessionID, events, records,
                           streamOut>>
    /\ UNCHANGED <<adapter, eventHandler, observability, handler, outputStream, state,
                   stderrBuf, exit, ret, runConfig, spawn, lastMsgFile>>
    /\ UNCHANGED <<slackVars, auxVars, script, written, childExited, reader, lineChan, linesClosed,
                   sent, canceled>>

\* claude: stderrBuf.ReadFrom(stderr), one read; it starts when the stdout
\* loop has ended
StreamClaudeStderr ==
    /\ pc = "stderr"
    /\ adapter = "claude"
    /\ pipe.err # << >>
    /\ pipe' = [pipe EXCEPT !.err = Tail(@)]
    /\ stderrBuf' = stderrBuf \o <<Head(pipe.err)>>
    /\ UNCHANGED <<adapter, eventHandler, observability, pc, handler, outputStream,
                   consumed, state, resultText, sessionID, events, records, streamOut,
                   exit, ret, runConfig, spawn, lastMsgFile>>
    /\ UNCHANGED <<slackVars, auxVars, script, written, childExited, reader, lineChan, linesClosed,
                   sent, canceled>>

\* claude: ReadFrom has reached EOF; cmd.Wait() and the return
StreamClaudeWait ==
    /\ pc = "stderr"
    /\ adapter = "claude"
    /\ pipe.err = << >>
    /\ childExited
    /\ \E x \in ExitsOf({Exit(w, c, FALSE, EmptyStr, stderrBuf) : w, c \in BOOLEAN}) :
          /\ x.ctxErr => x.waitErr
          /\ exit' = x
          /\ ret' = ClaudeFinish(resultText, x)
    /\ pc' = "done"
    /\ UNCHANGED <<adapter, eventHandler, observability, handler, outputStream, consumed,
                   state, stderrBuf, resultText, sessionID, events, records, streamOut,
                   runConfig, spawn, lastMsgFile>>
    /\ UNCHANGED <<streamVars, slackVars, auxVars>>

----------------------------------------------------------------------------
(* Slack: Client.PostWithRetry *)

\* the longest Backoff a client is configured with
MaxBackoff == 3

\* DefaultRetryConfig().Backoff, in seconds
DefaultRetryConfig == <<1, 2, 4>>

\* RetryConfig.Backoff: the delays, in seconds
BackoffConfigs == SeqsUpTo({1, 2}, MaxBackoff) \cup {DefaultRetryConfig}

\* what a call of fn returns: nil or an error
FnResults == {"nil", "e1", "e2"}

\* what PostWithRetry returns: nil, ctx.Err(), or
\* fmt.Errorf("after %d retries: %w", len(backoff), lastErr)
PostReturn(kind, retries, wraps) == [kind |-> kind, retries |-> retries, wraps |-> wraps]

NoPostReturn == PostReturn("pending", 0, "nil")

\* PostWithRetry is not running
SlackIdle ==
    /\ backoff = << >>
    /\ attempt = 0
    /\ calls = << >>
    /\ lastErr = "nil"
    /\ postPc = "off"
    /\ postRet = NoPostReturn

\* a loop whose last attempt comes one delay early
RetriesLeftOneFewer(i, b) == i + 1 < Len(b)

\* a loop that waits and retries after every failure
RetriesLeftAlways(i, b) == TRUE

\* i < len(backoff)
RetriesLeft(i, b) == i < Len(b)

\* PostWithRetry(ctx, fn) is called: backoff := c.retryConfig.Backoff; i := 0
PostStart ==
    /\ postPc = "idle"
    /\ attempt' = 0
    /\ lastErr' = "nil"
    /\ postPc' = "call"
    /\ UNCHANGED <<auxVars, runVars, streamVars, backoff, calls, postRet>>

\* one iteration of the loop up to its select: fn() is called; nil returns
\* nil, an error is kept in lastErr and, after the last attempt, returned
\* wrapped
PostCall ==
    /\ postPc = "call"
    /\ attempt <= Len(backoff)
    /\ \E err \in FnResults :
          /\ calls' = Append(calls, err)
          /\ IF err = "nil"
             THEN /\ postRet' = PostReturn("nil", 0, "nil")
                  /\ postPc' = "done"
                  /\ UNCHANGED <<lastErr, attempt>>
             ELSE /\ lastErr' = err
                  /\ IF RetriesLeft(attempt, backoff)
                     THEN /\ postPc' = "select"
                          /\ UNCHANGED <<attempt, postRet>>
                     ELSE /\ attempt' = attempt + 1
                          /\ postPc' = "done"
                          /\ postRet' = PostReturn("retries", Len(backoff), err)
    /\ UNCHANGED <<auxVars, runVars, streamVars, backoff>>

\* case <-time.After(backoff[i]): continue
PostTimer ==
    /\ postPc = "select"
    /\ attempt' = attempt + 1
    /\ postPc' = "call"
    /\ UNCHANGED <<auxVars, runVars, streamVars, backoff, calls, lastErr, postRet>>

\* a cancellation that wraps the last error of fn
CtxErrWrapping(last) == PostReturn("ctx.Err", 0, last)

\* return ctx.Err(): the context's error, whatever lastErr holds
CtxErr(last) == PostReturn("ctx.Err", 0, "nil")

\* case <-ctx.Done(): return ctx.Err()
PostCtxDone ==
    /\ postPc = "select"
    /\ postRet' = CtxErr(lastErr)
    /\ postPc' = "done"
    /\ UNCHANGED <<auxVars, runVars, streamVars, backoff, attempt, calls, lastErr>>

----------------------------------------------------------------------------
(* Slack: Notifier *)

\* a Notifier that has made this many requests is called no more
MaxRequests == 4

\* the most requests one PostWithRetry makes before it returns
MaxTries == 2

\* Config: Enabled, and the three strings that are set or left empty
NotifierConfigs ==
    [Enabled : BOOLEAN,
     WebhookURL : {EmptyStr, <<"https://hooks">>},
     BotToken : {EmptyStr, <<"xoxb">>},
     Channel : {EmptyStr, <<"#ch">>}]

\* the `ts` of a chat.postMessage response
SlackTS == {EmptyStr, <<"ts1">>, <<"ts2">>}

\* Config.IsConfigured
IsConfigured(c) ==
    c.Enabled /\ (c.WebhookURL # EmptyStr
                    \/ (c.BotToken # EmptyStr /\ c.Channel # EmptyStr))

\* Notifier.IsEnabled; NewNotifier builds the client exactly when the config
\* is configured
IsEnabled(c) == IsConfigured(c)

\* one HTTP request and the answer it got: chat.postMessage with the
\* thread_ts of its body, or the webhook, whose body has no thread_ts
Request(op, api, tts, ok, ts) ==
    [op |-> op, api |-> api, ThreadTS |-> tts, ok |-> ok, ts |-> ts]

\* PostWithRetry around one request: n attempts, every one but the last
\* failed, the last one answered ok or not
Attempts(op, api, tts, n, ok, ts) ==
    [i \in 1..n |-> IF i = n /\ ok
                    THEN Request(op, api, tts, TRUE, ts)
                    ELSE Request(op, api, tts, FALSE, EmptyStr)]

NotifierIdle ==
    /\ notifierCfg = [Enabled |-> FALSE, WebhookURL |-> EmptyStr,
                      BotToken |-> EmptyStr, Channel |-> EmptyStr]
    /\ threadTS = EmptyStr
    /\ started = FALSE
    /\ requests = << >>

\* StartSession never stores the timestamp of the answer
SessionTSDropped(ok, ts, old) == old

\* StartSession: n.threadTS after the PostWithRetry around PostMessage
SessionTS(ok, ts, old) == IF ok THEN ts ELSE old

\* Notifier.StartSession
StartSession ==
    /\ Len(requests) < MaxRequests
    /\ IF ~IsEnabled(notifierCfg)
       THEN UNCHANGED notifierVars
       ELSE /\ started' = TRUE
            /\ \E n \in 1..MaxTries, ok \in BOOLEAN, ts \in SlackTS :
                 IF notifierCfg.BotToken # EmptyStr /\ notifierCfg.Channel # EmptyStr
                 THEN /\ requests' = requests \o
                            Attempts("StartSession", "postMessage", EmptyStr, n, ok, ts)
                      /\ threadTS' = SessionTS(ok, ts, threadTS)
                 ELSE /\ ts = EmptyStr
                      /\ requests' = requests \o
                            Attempts("StartSession", "webhook", EmptyStr, n, ok, EmptyStr)
                      /\ UNCHANGED threadTS
            /\ UNCHANGED notifierCfg
    /\ UNCHANGED <<coreVars, runs, belayVars, loggerVars, slackHandlerVars>>

\* Notifier.Send, for the caller op ("Send", or "EndSession" through
\* SendWithMentions)
SendAs(op) ==
    /\ Len(requests) < MaxRequests
    /\ IF ~IsEnabled(notifierCfg)
       THEN UNCHANGED requests
       ELSE \E n \in 1..MaxTries, ok \in BOOLEAN, ts \in SlackTS :
              IF threadTS # EmptyStr /\ notifierCfg.BotToken # EmptyStr
              THEN requests' = requests \o
                        Attempts(op, "postMessage", threadTS, n, ok, ts)
              ELSE IF notifierCfg.WebhookURL # EmptyStr
              THEN /\ ts = EmptyStr
                   /\ requests' = requests \o
                        Attempts(op, "webhook", EmptyStr, n, ok, EmptyStr)
              ELSE IF notifierCfg.BotToken # EmptyStr
              THEN requests' = requests \o
                        Attempts(op, "postMessage", EmptyStr, n, ok, ts)
              ELSE UNCHANGED requests
    /\ UNCHANGED <<notifierCfg, threadTS>>
    /\ UNCHANGED <<coreVars, runs, belayVars, loggerVars, slackHandlerVars>>

\* Notifier.Send
Send ==
    /\ SendAs("Send")
    /\ UNCHANGED started

\* Notifier.EndSession
EndSession ==
    /\ SendAs("EndSession")
    /\ UNCHANGED started

----------------------------------------------------------------------------
(* Slack: NewEventHandler *)

\* a handler that has received this many events is called no more
MaxHandled == 3

\* EventConfig: every notification on, no session-start message, and the
\* one of the test (no tool-use notifications)
HandlerEventConfigs ==
    {[OnStart |-> TRUE, OnError |-> TRUE, OnResult |-> TRUE, OnToolUse |-> TRUE],
     [OnStart |-> FALSE, OnError |-> TRUE, OnResult |-> TRUE, OnToolUse |-> TRUE],
     [OnStart |-> TRUE, OnError |-> TRUE, OnResult |-> TRUE, OnToolUse |-> FALSE]}

\* the events a Run passes to the handler
SlackEvents ==
    {[Type |-> EventSystem, Subtype |-> <<"init">>],
     [Type |-> EventResultError, Subtype |-> EmptyStr],
     [Type |-> EventResult, Subtype |-> EmptyStr],
     [Type |-> EventToolUse, Subtype |-> EmptyStr],
     [Type |-> EventAssistant, Subtype |-> EmptyStr]}

\* a goroutine of the handler: the Notifier method it runs, the event it was
\* started for (an index into handled), where it stands, the ts it holds
\* (StartSession: of the answer; Send: read from n.threadTS), and what it
\* posted
Goroutine(op, ev) ==
    [op |-> op, ev |-> ev, pc |-> "start", ts |-> EmptyStr,
     api |-> "none", ThreadTS |-> EmptyStr, ok |-> FALSE]

SlackHandlerIdle ==
    /\ handlerEvents = [OnStart |-> FALSE, OnError |-> FALSE,
                        OnResult |-> FALSE, OnToolUse |-> FALSE]
    /\ sessionStarted = FALSE
    /\ handled = << >>
    /\ goroutines = << >>

\* the closure NewEventHandler returns, called with one event
SlackHandle ==
    /\ Len(handled) < MaxHandled
    /\ \E e \in SlackEvents :
         /\ handled' = Append(handled, e)
         /\ IF ~IsEnabled(notifierCfg)
            THEN UNCHANGED <<sessionStarted, goroutines>>
            ELSE IF e.Type = EventSystem
            THEN IF e.Subtype = <<"init">> /\ handlerEvents.OnStart /\ ~sessionStarted
                 THEN /\ sessionStarted' = TRUE
                      /\ goroutines' = Append(goroutines,
                             Goroutine("StartSession", Len(handled) + 1))
                 ELSE UNCHANGED <<sessionStarted, goroutines>>
            ELSE IF e.Type = EventResultError
            THEN /\ goroutines' = IF handlerEvents.OnError
                                  THEN Append(goroutines,
                                          Goroutine("Send", Len(handled) + 1))
                                  ELSE goroutines
                 /\ UNCHANGED sessionStarted
            ELSE IF e.Type = EventResult
            THEN /\ goroutines' = IF handlerEvents.OnResult
                                  THEN Append(goroutines,
                                          Goroutine("EndSession", Len(handled) + 1))
                                  ELSE goroutines
                 /\ UNCHANGED sessionStarted
            ELSE IF e.Type = EventToolUse
            THEN /\ goroutines' = IF handlerEvents.OnToolUse
                                  THEN Append(goroutines,
                                          Goroutine("Send", Len(handled) + 1))
                                  ELSE goroutines
                 /\ UNCHANGED sessionStarted
            ELSE UNCHANGED <<sessionStarted, goroutines>>
    /\ UNCHANGED <<coreVars, runs, notifierVars, belayVars, loggerVars, handlerEvents>>

\* go notifier.StartSession: n.started = true under n.mu
GoStartSessionBegin ==
    \E g \in DOMAIN goroutines :
      /\ goroutines[g].op = "StartSession" /\ goroutines[g].pc = "start"
      /\ IF ~IsEnabled(notifierCfg)
         THEN /\ goroutines' = [goroutines EXCEPT ![g].pc = "done"]
              /\ UNCHANGED started
         ELSE /\ started' = TRUE
              /\ goroutines' = [goroutines EXCEPT ![g].pc = "post"]
      /\ UNCHANGED <<coreVars, runs, belayVars, loggerVars, notifierCfg, threadTS,
                     requests, handlerEvents, sessionStarted, handled>>

\* go notifier.StartSession: the PostWithRetry around PostMessage, or around
\* PostWebhook without a bot token and a channel
GoStartSessionPost ==
    \E g \in DOMAIN goroutines :
      /\ goroutines[g].op = "StartSession" /\ goroutines[g].pc = "post"
      /\ \E n \in 1..MaxTries, ok \in BOOLEAN, ts \in SlackTS :
           IF notifierCfg.BotToken # EmptyStr /\ notifierCfg.Channel # EmptyStr
           THEN /\ requests' = requests \o
                      Attempts("StartSession", "postMessage", EmptyStr, n, ok, ts)
                /\ goroutines' = [goroutines EXCEPT
                      ![g].pc = IF ok THEN "store" ELSE "done",
                      ![g].ts = IF ok THEN ts ELSE EmptyStr,
                      ![g].api = "postMessage", ![g].ok = ok]
           ELSE /\ ts = EmptyStr
                /\ requests' = requests \o
                      Attempts("StartSession", "webhook", EmptyStr, n, ok, EmptyStr)
                /\ goroutines' = [goroutines EXCEPT
                      ![g].pc = "done", ![g].api = "webhook", ![g].ok = ok]
      /\ UNCHANGED <<coreVars, runs, belayVars, loggerVars, notifierCfg, threadTS,
                     started, handlerEvents, sessionStarted, handled>>

\* go notifier.StartSession: n.threadTS = ts under n.mu
GoStartSessionStore ==
    \E g \in DOMAIN goroutines :
      /\ goroutines[g].op = "StartSession" /\ goroutines[g].pc = "store"
      /\ threadTS' = goroutines[g].ts
      /\ goroutines' = [goroutines EXCEPT ![g].pc = "done"]
      /\ UNCHANGED <<coreVars, runs, belayVars, loggerVars, notifierCfg, started,
                     requests, handlerEvents, sessionStarted, handled>>

\* go notifier.Send, go notifier.EndSession: ts := n.threadTS under n.mu
GoSendRead ==
    \E g \in DOMAIN goroutines :
      /\ goroutines[g].op \in {"Send", "EndSession"} /\ goroutines[g].pc = "start"
      /\ goroutines' = [goroutines EXCEPT
            ![g].pc = IF IsEnabled(notifierCfg) THEN "post" ELSE "done",
            ![g].ts = IF IsEnabled(notifierCfg) THEN threadTS ELSE EmptyStr]
      /\ UNCHANGED <<coreVars, runs, belayVars, loggerVars, notifierVars,
                     handlerEvents, sessionStarted, handled>>

\* go notifier.Send, go notifier.EndSession: the request, with the ts read
GoSendPost ==
    \E g \in DOMAIN goroutines :
      /\ goroutines[g].op \in {"Send", "EndSession"} /\ goroutines[g].pc = "post"
      /\ \E n \in 1..MaxTries, ok \in BOOLEAN, ts \in SlackTS :
           LET op == goroutines[g].op
               held == goroutines[g].ts
           IN IF held # EmptyStr /\ notifierCfg.BotToken # EmptyStr
              THEN /\ requests' = requests \o
                         Attempts(op, "postMessage", held, n, ok, ts)
                   /\ goroutines' = [goroutines EXCEPT
                         ![g].pc = "done", ![g].api = "postMessage",
                         ![g].ThreadTS = held, ![g].ok = ok]
              ELSE IF notifierCfg.WebhookURL # EmptyStr
              THEN /\ ts = EmptyStr
                   /\ requests' = requests \o
                         Attempts(op, "webhook", EmptyStr, n, ok, EmptyStr)
                   /\ goroutines' = [goroutines EXCEPT
                         ![g].pc = "done", ![g].api = "webhook", ![g].ok = ok]
              ELSE IF notifierCfg.BotToken # EmptyStr
              THEN /\ requests' = requests \o
                         Attempts(op, "postMessage", EmptyStr, n, ok, ts)
                   /\ goroutines' = [goroutines EXCEPT
                         ![g].pc = "done", ![g].api = "postMessage",
                         ![g].ok = ok]
              ELSE /\ ts = EmptyStr /\ n = 1 /\ ~ok
                   /\ UNCHANGED requests
                   /\ goroutines' = [goroutines EXCEPT ![g].pc = "done"]
      /\ UNCHANGED <<coreVars, runs, belayVars, loggerVars, notifierCfg, threadTS,
                     started, handlerEvents, sessionStarted, handled>>

----------------------------------------------------------------------------
(* providers/belay: Provider *)

\* a Provider that has received this many calls is called no more
MaxCalls == 4

\* shortID(): the first eight characters of a fresh UUID
TraceIDs == {<<"t1">>, <<"t2">>}

\* the ToolID of tool-use and tool-result events
ToolIDs == {<<"tool_01">>, <<"tool_02">>}

\* time.Since(...).Milliseconds(), as the clock decides
Elapsed == {0, 5}

\* WithPricing: the zero ModelPricing, or USD per million tokens
Pricings == {[InputPerMTok |-> 0, OutputPerMTok |-> 0],
             [InputPerMTok |-> 5, OutputPerMTok |-> 25]}

\* ModelPricing.Cost, in millionths of a dollar
Cost(p, inTok, outTok) == inTok * p.InputPerMTok + outTok * p.OutputPerMTok

\* EstimateTokens: a quarter of the length, rounded up
EstimateTokens(text) ==
    IF Len(text) = 0 THEN 0 ELSE (Len(text) + 3) \div 4

\* traceNode; the ID of a node other than the root is a fresh shortID that
\* the Provider never reads
Node(id, type, name) ==
    [ID |-> id, NodeType |-> type, AgentName |-> name, Model |-> EmptyStr,
     DurationMS |-> 0, CostUSD |-> 0, InputTokens |-> 0, OutputTokens |-> 0,
     ContextWindow |-> 0, Children |-> << >>]

\* p.root = nil
NoNode == Node(EmptyStr, "nil", EmptyStr)

\* the events a caller passes to the handler
BelayEvents ==
    {[Type |-> "phase", PhaseName |-> n, ToolName |-> EmptyStr, ToolID |-> EmptyStr,
      Text |-> EmptyStr] : n \in {<<"plan">>, <<"default">>}}
    \cup {[Type |-> "tool_use", PhaseName |-> EmptyStr,
           ToolName |-> IF id = <<"tool_01">> THEN <<"B", "a", "s", "h">>
                        ELSE <<"R", "e", "a", "d">>,
           ToolID |-> id, Text |-> EmptyStr] : id \in ToolIDs}
    \cup {[Type |-> "tool_result", PhaseName |-> EmptyStr, ToolName |-> EmptyStr,
           ToolID |-> id, Text |-> <<"o", "k">>] : id \in ToolIDs}
    \cup {[Type |-> "assistant", PhaseName |-> EmptyStr, ToolName |-> EmptyStr,
           ToolID |-> EmptyStr, Text |-> <<"h", "e", "l", "l", "o">>]}

\* the CompletionRecords a caller passes to RecordCompletion: one that
\* carries its cost, one that carries only token counts, one that carries
\* neither
BelayRecords ==
    {[Model |-> <<"opus">>, CostUSD |-> 2, DurationMS |-> 3, InputTokens |-> 0,
      OutputTokens |-> 0],
     [Model |-> <<"opus">>, CostUSD |-> 0, DurationMS |-> 3, InputTokens |-> 1,
      OutputTokens |-> 1],
     [Model |-> <<"opus">>, CostUSD |-> 0, DurationMS |-> 0, InputTokens |-> 0,
      OutputTokens |-> 0]}

\* one call of the Provider, as the caller made it
Call(op, arg) == [op |-> op, arg |-> arg]

\* the goroutines that share one Provider
Callers == {1, 2}

\* a goroutine that is in no method of the Provider
NotCalling == [pc |-> "idle", op |-> "none", seen |-> 0, snap |-> << >>]

\* NewProvider(opts...), before any call
BelayFresh ==
    /\ root = NoNode
    /\ currentPhase = 0
    /\ phaseStart = "zero"
    /\ toolStart = {}
    /\ toolNodes = << >>
    /\ traceID = EmptyStr
    /\ inputTokens = 0
    /\ outputTokens = 0
    /\ files = << >>
    /\ provCalls = << >>
    /\ mu = 0
    /\ callers = [g \in Callers |-> NotCalling]

BelayIdle ==
    /\ pricing = [InputPerMTok |-> 0, OutputPerMTok |-> 0]
    /\ contextWindow = 0
    /\ BelayFresh

\* every guard of the Provider takes the trace to be in progress
NoTraceNever(r) == FALSE

\* p.root == nil
NoTrace(r) == r = NoNode

\* finalizeCurrentPhase: the tree after it, when the clock reads e
Finalized(r, cp, ps, e) ==
    IF cp = 0 THEN r
    ELSE IF r.Children[cp].DurationMS = 0 /\ ps # "zero"
         THEN [r EXCEPT !.Children[cp].DurationMS = e]
         ELSE r

\* the tree with a phase node appended
WithPhase(r, name) == [r EXCEPT !.Children = Append(@, Node(<<"uuid">>, "phase", name))]

\* a second tool use puts its node under the default phase whatever the
\* current phase is
ToolParentFirst(cp) == 1

\* handleToolUse: the phase whose Children receive the tool_call node
ToolParent(cp) == cp

\* a StartTrace that finalizes the trace in progress and writes it before it
\* begins the new one
StartTraceWriting ==
    /\ Len(provCalls) < MaxCalls
    /\ \E id \in TraceIDs :
         /\ traceID' = id
         /\ root' = Node(id, "trace", <<"my-run">>)
         /\ provCalls' = Append(provCalls, Call("StartTrace", id))
    /\ files' = IF NoTrace(root) THEN files
                ELSE [p \in DOMAIN files \cup {traceID} |->
                          IF p = traceID THEN root ELSE files[p]]
    /\ currentPhase' = 0
    /\ toolStart' = {}
    /\ toolNodes' = << >>
    /\ inputTokens' = 0
    /\ outputTokens' = 0
    /\ UNCHANGED <<pricing, contextWindow, phaseStart>>
    /\ UNCHANGED <<coreVars, runs, notifierVars, loggerVars, slackHandlerVars>>
    /\ UNCHANGED <<mu, callers>>

\* Provider.StartTrace
StartTrace ==
    /\ Len(provCalls) < MaxCalls
    /\ \E id \in TraceIDs :
         /\ traceID' = id
         /\ root' = Node(id, "trace", <<"my-run">>)
         /\ provCalls' = Append(provCalls, Call("StartTrace", id))
    /\ currentPhase' = 0
    /\ toolStart' = {}
    /\ toolNodes' = << >>
    /\ inputTokens' = 0
    /\ outputTokens' = 0
    /\ UNCHANGED <<pricing, contextWindow, phaseStart, files>>
    /\ UNCHANGED <<coreVars, runs, notifierVars, loggerVars, slackHandlerVars>>
    /\ UNCHANGED <<mu, callers>>

\* Provider.EndTrace, with writeTrace: the file is written unless the
\* directory or the file cannot be created
EndTrace ==
    /\ Len(provCalls) < MaxCalls
    /\ \E id \in TraceIDs :
         /\ provCalls' = Append(provCalls, Call("EndTrace", id))
         /\ IF NoTrace(root)
            THEN UNCHANGED <<root, currentPhase, files>>
            ELSE /\ root' = NoNode
                 /\ currentPhase' = 0
                 /\ \E e1 \in Elapsed, e2 \in Elapsed, wrote \in BOOLEAN :
                      LET data == [Finalized(root, currentPhase, phaseStart, e1)
                                       EXCEPT !.DurationMS = e2]
                      IN files' = IF wrote
                                  THEN [p \in DOMAIN files \cup {id} |->
                                            IF p = id THEN data ELSE files[p]]
                                  ELSE files
    /\ UNCHANGED <<pricing, contextWindow, phaseStart, toolStart, toolNodes, traceID,
                   inputTokens, outputTokens>>
    /\ UNCHANGED <<coreVars, runs, notifierVars, loggerVars, slackHandlerVars>>
    /\ UNCHANGED <<mu, callers>>

\* Provider.RecordCompletion
RecordCompletion ==
    /\ Len(provCalls) < MaxCalls
    /\ \E record \in BelayRecords :
         /\ provCalls' = Append(provCalls, Call("RecordCompletion", record))
         /\ IF NoTrace(root)
            THEN UNCHANGED <<root, currentPhase, phaseStart>>
            ELSE LET r1 == IF currentPhase = 0 THEN WithPhase(root, <<"default">>)
                           ELSE root
                     cp == IF currentPhase = 0 THEN Len(r1.Children) ELSE currentPhase
                     zero == record.InputTokens = 0 /\ record.OutputTokens = 0
                     inTok == IF zero THEN inputTokens ELSE record.InputTokens
                     outTok == IF zero THEN outputTokens ELSE record.OutputTokens
                     cost == IF record.CostUSD = 0 /\ (inTok > 0 \/ outTok > 0)
                             THEN Cost(pricing, inTok, outTok)
                             ELSE record.CostUSD
                 IN /\ root' = [r1 EXCEPT
                                  !.Children[cp].Model = record.Model,
                                  !.Children[cp].DurationMS = @ + record.DurationMS,
                                  !.Children[cp].InputTokens = @ + inTok,
                                  !.Children[cp].OutputTokens = @ + outTok,
                                  !.Children[cp].CostUSD = @ + cost]
                    /\ currentPhase' = cp
                    /\ phaseStart' = IF currentPhase = 0 THEN "set" ELSE phaseStart
    /\ UNCHANGED <<pricing, contextWindow, toolStart, toolNodes, traceID, inputTokens,
                   outputTokens, files>>
    /\ UNCHANGED <<coreVars, runs, notifierVars, loggerVars, slackHandlerVars>>
    /\ UNCHANGED <<mu, callers>>

\* the token estimates after the handler has counted event e
CountedIn(e, n) ==
    IF e.Type \in {"tool_result", "result", "result_error"} THEN n + EstimateTokens(e.Text)
    ELSE n

CountedOut(e, n) ==
    IF e.Type = "assistant" THEN n + EstimateTokens(e.Text)
    ELSE IF e.Type = "tool_use" THEN n + EstimateTokens(e.ToolName) + EstimateTokens(EmptyStr)
    ELSE n

\* the function returned by Provider.EventHandler, with handlePhase,
\* handleToolUse and handleToolResult
HandleEvent ==
    /\ Len(provCalls) < MaxCalls
    /\ \E e \in BelayEvents :
         /\ provCalls' = Append(provCalls, Call("Event", e))
         /\ IF NoTrace(root)
            THEN UNCHANGED <<root, currentPhase, phaseStart, toolStart, toolNodes,
                             inputTokens, outputTokens>>
            ELSE /\ inputTokens' = CountedIn(e, inputTokens)
                 /\ outputTokens' = CountedOut(e, outputTokens)
                 /\ CASE e.Type = "phase" ->
                           \E el \in Elapsed :
                             LET r1 == Finalized(root, currentPhase, phaseStart, el)
                                 r2 == [r1 EXCEPT !.Children = Append(@,
                                           Node(<<"uuid">>, "marker", <<"-> ">> \o e.PhaseName))]
                                 r3 == WithPhase(r2, e.PhaseName)
                             IN /\ root' = r3
                                /\ currentPhase' = Len(r3.Children)
                                /\ phaseStart' = "set"
                                /\ UNCHANGED <<toolStart, toolNodes>>
                      [] e.Type = "tool_use" ->
                           LET r1 == IF currentPhase = 0
                                     THEN WithPhase(root, <<"default">>) ELSE root
                               cp == IF currentPhase = 0 THEN Len(r1.Children)
                                     ELSE currentPhase
                               par == ToolParent(cp)
                               node == [Node(<<"uuid">>, "tool_call", e.ToolName) EXCEPT
                                          !.InputTokens = inputTokens',
                                          !.OutputTokens = outputTokens',
                                          !.ContextWindow = contextWindow]
                               r2 == [r1 EXCEPT !.Children[par].Children = Append(@, node)]
                           IN /\ root' = r2
                              /\ currentPhase' = cp
                              /\ phaseStart' = IF currentPhase = 0 THEN "set" ELSE phaseStart
                              /\ toolStart' = toolStart \cup {e.ToolID}
                              /\ toolNodes' = [id \in DOMAIN toolNodes \cup {e.ToolID} |->
                                                 IF id = e.ToolID
                                                 THEN <<par, Len(r2.Children[par].Children)>>
                                                 ELSE toolNodes[id]]
                      [] e.Type = "tool_result" ->
                           IF e.ToolID \notin DOMAIN toolNodes
                           THEN UNCHANGED <<root, currentPhase, phaseStart, toolStart,
                                            toolNodes>>
                           ELSE LET at == toolNodes[e.ToolID]
                                IN /\ IF e.ToolID \in toolStart
                                      THEN \E el \in Elapsed :
                                             root' = [root EXCEPT
                                               !.Children[at[1]].Children[at[2]].DurationMS = el]
                                      ELSE UNCHANGED root
                                   /\ toolStart' = toolStart \ {e.ToolID}
                                   /\ toolNodes' = [id \in DOMAIN toolNodes \ {e.ToolID} |->
                                                      toolNodes[id]]
                                   /\ UNCHANGED <<currentPhase, phaseStart>>
                      [] OTHER ->
                           UNCHANGED <<root, currentPhase, phaseStart, toolStart, toolNodes>>
    /\ UNCHANGED <<pricing, contextWindow, traceID, files>>
    /\ UNCHANGED <<coreVars, runs, notifierVars, loggerVars, slackHandlerVars>>
    /\ UNCHANGED <<mu, callers>>

----------------------------------------------------------------------------
(* providers/belay: one Provider called from several goroutines *)

\* goroutines sharing a Provider that has received this many calls begin no
\* further call
MaxSharedCalls == 3

\* the methods that take p.mu
LockedMethods == {"StartTrace", "EndTrace", "RecordCompletion", "Event"}

\* the fields of the Provider a method body reads or writes, and its files
ProviderState ==
    <<root, currentPhase, phaseStart, toolStart, toolNodes, traceID,
      inputTokens, outputTokens, files, provCalls>>

\* Lock returns whether the mutex is held or not
AcquireUnheld(m) == TRUE

\* sync.Mutex: Lock returns once no goroutine holds the mutex
Acquire(m) == m = 0

\* the goroutine's call has not run its body yet
BodyPending(g) ==
    \/ callers[g].pc = "lock"
    \/ callers[g].pc = "locked" /\ Len(provCalls) = callers[g].seen

\* a goroutine calls a method of the Provider
SharedCall ==
    /\ \E g \in Callers, op \in LockedMethods :
         /\ callers[g].pc = "idle"
         /\ Len(provCalls) + Cardinality({h \in Callers : BodyPending(h)})
               < MaxSharedCalls
         /\ callers' = [callers EXCEPT ![g] = [NotCalling EXCEPT
                            !.pc = "lock", !.op = op]]
    /\ UNCHANGED <<pricing, contextWindow, root, currentPhase, phaseStart,
                   toolStart, toolNodes, traceID, inputTokens, outputTokens,
                   files, provCalls, mu>>
    /\ UNCHANGED <<coreVars, runs, notifierVars, loggerVars, slackHandlerVars>>

\* p.mu.Lock() returns: the body begins, with the Provider as it is now
SharedLock ==
    /\ \E g \in Callers :
         /\ callers[g].pc = "lock"
         /\ Acquire(mu)
         /\ mu' = g
         /\ callers' = [callers EXCEPT ![g].pc = "locked",
                                       ![g].seen = Len(provCalls),
                                       ![g].snap = ProviderState]
    /\ UNCHANGED <<pricing, contextWindow, root, currentPhase, phaseStart,
                   toolStart, toolNodes, traceID, inputTokens, outputTokens,
                   files, provCalls>>
    /\ UNCHANGED <<coreVars, runs, notifierVars, loggerVars, slackHandlerVars>>

\* the body of the method, between Lock and the deferred Unlock
SharedBody ==
    \E g \in Callers :
      /\ callers[g].pc = "locked"
      /\ Len(provCalls) = callers[g].seen
      /\ \/ callers[g].op = "StartTrace" /\ StartTrace
         \/ callers[g].op = "EndTrace" /\ EndTrace
         \/ callers[g].op = "RecordCompletion" /\ RecordCompletion
         \/ callers[g].op = "Event" /\ HandleEvent

\* defer p.mu.Unlock(): the method returns
SharedUnlock ==
    /\ \E g \in Callers :
         /\ callers[g].pc = "locked"
         /\ Len(provCalls) > callers[g].seen
         /\ mu' = 0
         /\ callers' = [callers EXCEPT ![g] = NotCalling]
    /\ UNCHANGED <<pricing, contextWindow, root, currentPhase, phaseStart,
                   toolStart, toolNodes, traceID, inputTokens, outputTokens,
                   files, provCalls>>
    /\ UNCHANGED <<coreVars, runs, notifierVars, loggerVars, slackHandlerVars>>

----------------------------------------------------------------------------
(* NewLogger: the EventHandler that prints the events *)

\* a logger that has handled this many events is called no more
MaxLogged == 4

\* loggerConfig after the options: the switches that decide which lines are
\* printed.  LogTokens and LogContent only change the text of a line, and
\* LogSystem is never read by the handler; they keep their defaults
LoggerConfigs ==
    [assistant : BOOLEAN, toolUse : BOOLEAN, toolResult : BOOLEAN, result : BOOLEAN]

\* the events a caller passes to the logger
LoggerEvents ==
    {[Type |-> "system", Subtype |-> <<"init">>, Text |-> EmptyStr],
     [Type |-> "system", Subtype |-> <<"status">>, Text |-> EmptyStr],
     [Type |-> "assistant_start", Subtype |-> EmptyStr, Text |-> EmptyStr],
     [Type |-> "assistant", Subtype |-> EmptyStr, Text |-> <<"h", "e", "l", "l", "o">>],
     [Type |-> "tool_use", Subtype |-> EmptyStr, Text |-> EmptyStr],
     [Type |-> "tool_result", Subtype |-> EmptyStr, Text |-> <<"o", "k">>],
     [Type |-> "result", Subtype |-> EmptyStr, Text |-> <<"d", "o", "n", "e">>],
     [Type |-> "result_error", Subtype |-> EmptyStr, Text |-> <<"b", "a", "d">>]}

\* one printed line: what it is, whether it is indented under a header, and
\* for a header or a result line the token total shown in its thermobar
Line(kind, indented, total) == [kind |-> kind, indented |-> indented, total |-> total]

\* classifyEventTokens; the tool name of a tool use is "Bash", its input empty
ClassifyIn(e) ==
    IF e.Type \in {"assistant", "tool_use", "assistant_start"} THEN 0
    ELSE IF e.Type = "system" THEN EstimateTokens(e.Subtype) + EstimateTokens(EmptyStr)
    ELSE EstimateTokens(e.Text)

ClassifyOut(e) ==
    IF e.Type = "assistant" THEN EstimateTokens(e.Text)
    ELSE IF e.Type = "tool_use" THEN EstimateTokens(<<"B", "a", "s", "h">>)
    ELSE 0

\* NewLogger(w, opts...), before any event
LoggerFresh ==
    /\ inTurn = FALSE
    /\ loggerTokens = [input |-> 0, output |-> 0]
    /\ logged = << >>
    /\ output = << >>

LoggerIdle ==
    /\ loggerCfg = [assistant |-> TRUE, toolUse |-> TRUE, toolResult |-> TRUE,
                    result |-> TRUE]
    /\ LoggerFresh

\* every assistant text prints a header
HeaderAlways(turn) == TRUE

\* EventAssistant and EventToolUse: `if !inTurn`, the header is due
HeaderDue(turn) == ~turn

\* the function returned by NewLogger
LogEvent ==
    /\ Len(logged) < MaxLogged
    /\ \E e \in LoggerEvents :
         LET init == e.Type = "system" /\ e.Subtype = <<"init">>
             base == IF init THEN [input |-> 0, output |-> 0] ELSE loggerTokens
             tok == [input |-> base.input + ClassifyIn(e),
                     output |-> base.output + ClassifyOut(e)]
             turn == IF init THEN FALSE ELSE inTurn
             total == tok.input + tok.output
             header == Line("header", FALSE, total)
         IN /\ logged' = Append(logged, e)
            /\ loggerTokens' = tok
            /\ CASE e.Type = "assistant_start" /\ loggerCfg.assistant ->
                      /\ inTurn' = TRUE
                      /\ output' = Append(output, header)
                 [] e.Type = "assistant" /\ loggerCfg.assistant ->
                      /\ inTurn' = TRUE
                      /\ output' = output
                            \o (IF HeaderDue(turn) THEN <<header>> ELSE << >>)
                            \o <<Line("text", TRUE, 0)>>
                 [] e.Type = "tool_use" /\ loggerCfg.toolUse ->
                      LET opens == HeaderDue(turn) /\ loggerCfg.assistant
                      IN /\ inTurn' = (turn \/ opens)
                         /\ output' = output
                               \o (IF opens THEN <<header>> ELSE << >>)
                               \o <<Line("tool_use", turn \/ opens, 0)>>
                 [] e.Type = "tool_result" /\ loggerCfg.toolResult ->
                      /\ inTurn' = turn
                      /\ output' = Append(output, Line("tool_result", turn, 0))
                 [] e.Type = "result" /\ loggerCfg.result ->
                      /\ inTurn' = FALSE
                      /\ output' = Append(output, Line("result", FALSE, total))
                 [] e.Type = "result_error" /\ loggerCfg.result ->
                      /\ inTurn' = FALSE
                      /\ output' = Append(output, Line("error", FALSE, 0))
                 [] OTHER ->
                      /\ inTurn' = turn
                      /\ UNCHANGED output
    /\ UNCHANGED loggerCfg
    /\ UNCHANGED <<coreVars, runs, notifierVars, belayVars, slackHandlerVars>>

----------------------------------------------------------------------------
(* The specifications *)

\* nothing decoded, dispatched or returned yet
RunFresh ==
    /\ outputStream = FALSE
    /\ consumed = << >>
    /\ state = ZeroRunState
    /\ stderrBuf = EmptyStr
    /\ resultText = EmptyStr
    /\ sessionID = EmptyStr
    /\ events = << >>
    /\ records = << >>
    /\ streamOut = EmptyStr
    /\ exit = NoExit
    /\ ret = NoReturn
    /\ runConfig = NoConfig

\* no Notifier, no Provider and no logger in use
AuxIdle ==
    /\ NotifierIdle
    /\ BelayIdle
    /\ LoggerIdle
    /\ SlackHandlerIdle

\* no Client in use: no Run, no child process, no PostWithRetry
CoreIdle ==
    /\ adapter = "codex"
    /\ eventHandler = FALSE
    /\ observability = FALSE
    /\ RunFresh
    /\ pc = "idle"
    /\ handler = FALSE
    /\ spawn = "none"
    /\ lastMsgFile = "none"
    /\ StreamIdle
    /\ SlackIdle
    /\ RunsIdle

\* NewClient(opts...): a codex or a claude Client, with or without a default
\* handler and an observability sink; Run has not been called
Init ==
    /\ adapter \in {"codex", "claude"}
    /\ eventHandler \in BOOLEAN
    /\ observability \in BOOLEAN
    /\ RunFresh
    /\ pc = "idle"
    /\ handler = FALSE
    /\ spawn = "none"
    /\ lastMsgFile = "none"
    /\ StreamIdle
    /\ SlackIdle
    /\ AuxIdle
    /\ RunsIdle

Next ==
    \/ CodexStart
    \/ CodexLine
    \/ CodexWait
    \/ ClaudeStart
    \/ ClaudeLine
    \/ ClaudeWait

Spec == Init /\ [][Next]_vars

\* Run has started the child and is about to read its output
StreamInit ==
    /\ adapter \in {"codex", "claude"}
    /\ eventHandler \in BOOLEAN
    /\ observability \in BOOLEAN
    /\ RunFresh
    /\ pc = "running"
    /\ handler = eventHandler
    /\ spawn = "started"
    /\ lastMsgFile = IF adapter = "codex" THEN "created" ELSE "none"
    /\ script \in Scripts(adapter)
    /\ written = [out |-> 0, err |-> 0]
    /\ childExited = FALSE
    /\ pipe = [out |-> << >>, err |-> << >>]
    /\ reader = IF adapter = "codex"
                THEN [out |-> ReaderAt("scan", ""), err |-> ReaderAt("scan", "")]
                ELSE [out |-> ReaderAt("off", ""), err |-> ReaderAt("off", "")]
    /\ lineChan = << >>
    /\ linesClosed = FALSE
    /\ sent = << >>
    /\ canceled = FALSE
    /\ SlackIdle
    /\ AuxIdle
    /\ RunsIdle

StreamNext ==
    \/ ChildWrite
    \/ ChildExit
    \/ Cancel
    \/ ReadFault
    \/ ReaderScan
    \/ ReaderSend
    \/ CloseLines
    \/ StreamCodexLine
    \/ StreamCodexWait
    \/ StreamClaudeLine
    \/ StreamClaudeStderr
    \/ StreamClaudeWait

\* the steps of the child, of the goroutines and of Run; a cancellation and
\* a read fault are not among them: nothing obliges the caller to cancel or
\* a read to fail
StreamProgress ==
    \/ ChildWrite
    \/ ChildExit
    \/ ReaderScan
    \/ ReaderSend
    \/ CloseLines
    \/ StreamCodexLine
    \/ StreamCodexWait
    \/ StreamClaudeLine
    \/ StreamClaudeStderr
    \/ StreamClaudeWait

\* the child, the goroutines and Run each take their next step when they can
StreamSpec == StreamInit /\ [][StreamNext]_vars /\ WF_vars(StreamProgress)

\* a slack Client with its retry configuration; PostWithRetry not yet called
SlackInit ==
    /\ adapter = "codex"
    /\ eventHandler = FALSE
    /\ observability = FALSE
    /\ RunFresh
    /\ pc = "idle"
    /\ handler = FALSE
    /\ spawn = "none"
    /\ lastMsgFile = "none"
    /\ StreamIdle
    /\ backoff \in BackoffConfigs
    /\ attempt = 0
    /\ calls = << >>
    /\ lastErr = "nil"
    /\ postPc = "idle"
    /\ postRet = NoPostReturn
    /\ AuxIdle
    /\ RunsIdle

SlackNext ==
    \/ PostStart
    \/ PostCall
    \/ PostTimer
    \/ PostCtxDone

SlackSpec == SlackInit /\ [][SlackNext]_vars

\* NewNotifier(cfg): no session started, nothing sent
NotifierInit ==
    /\ CoreIdle
    /\ notifierCfg \in NotifierConfigs
    /\ threadTS = EmptyStr
    /\ started = FALSE
    /\ requests = << >>
    /\ BelayIdle
    /\ LoggerIdle
    /\ SlackHandlerIdle

NotifierNext ==
    \/ StartSession
    \/ Send
    \/ EndSession

NotifierSpec == NotifierInit /\ [][NotifierNext]_vars

\* NewProvider(opts...): no trace started, nothing written
BelayInit ==
    /\ CoreIdle
    /\ NotifierIdle
    /\ pricing \in Pricings
    /\ contextWindow \in {0, 200}
    /\ BelayFresh
    /\ LoggerIdle
    /\ SlackHandlerIdle

BelayNext ==
    \/ StartTrace
    \/ EndTrace
    \/ RecordCompletion
    \/ HandleEvent

BelaySpec == BelayInit /\ [][BelayNext]_vars

\* NewLogger(w, opts...): nothing printed
LoggerInit ==
    /\ CoreIdle
    /\ NotifierIdle
    /\ BelayIdle
    /\ loggerCfg \in LoggerConfigs
    /\ LoggerFresh
    /\ SlackHandlerIdle

LoggerNext == LogEvent

LoggerSpec == LoggerInit /\ [][LoggerNext]_vars

\* a Notifier with a bot token and a channel, behind the handler of
\* NewEventHandler
SlackHandlerInit ==
    /\ CoreIdle
    /\ notifierCfg \in {c \in NotifierConfigs :
                           /\ c.Enabled
                           /\ c.BotToken # EmptyStr /\ c.Channel # EmptyStr}
    /\ threadTS = EmptyStr
    /\ started = FALSE
    /\ requests = << >>
    /\ BelayIdle
    /\ LoggerIdle
    /\ handlerEvents \in HandlerEventConfigs
    /\ sessionStarted = FALSE
    /\ handled = << >>
    /\ goroutines = << >>

SlackHandlerNext ==
    \/ SlackHandle
    \/ GoStartSessionBegin
    \/ GoStartSessionPost
    \/ GoStartSessionStore
    \/ GoSendRead
    \/ GoSendPost

SlackHandlerSpec == SlackHandlerInit /\ [][SlackHandlerNext]_vars

\* one codex Client, with or without a default handler and a sink, and the
\* calls of Run in progress on it at once
ClientRunsInit ==
    /\ adapter = "codex"
    /\ eventHandler \in BOOLEAN
    /\ observability \in BOOLEAN
    /\ RunFresh
    /\ pc = "idle"
    /\ handler = FALSE
    /\ spawn = "none"
    /\ lastMsgFile = "none"
    /\ StreamIdle
    /\ SlackIdle
    /\ NotifierIdle
    /\ BelayIdle
    /\ LoggerIdle
    /\ SlackHandlerIdle
    /\ RunsIdle

ClientRunsNext ==
    \/ ClientRunStart
    \/ ClientRunLine
    \/ ClientRunWait

ClientRunsSpec == ClientRunsInit /\ [][ClientRunsNext]_vars

\* one Provider, its methods called from the goroutines of Callers
SharedBelayNext ==
    \/ SharedCall
    \/ SharedLock
    \/ SharedBody
    \/ SharedUnlock

SharedBelaySpec == BelayInit /\ [][SharedBelayNext]_vars

----------------------------------------------------------------------------
(* What the claims speak of, read off the lines consumed *)

IsTerminal(e) == e.Type \in {EventResult, EventResultError}

\* the terminal events the handler has received
TerminalEvents == SelectSeq(events, IsTerminal)

\* Run went through cmd.Wait() and has returned
Exited == pc = "done" /\ exit.waited

ExitedZero == Exited /\ ~exit.waitErr

\* non-zero exit without cancellation
ExitedNonZero == Exited /\ exit.waitErr /\ ~exit.ctxErr

\* the value of a string key of a line's JSON object ("" otherwise)
KeyOf(j, key) ==
    IF j.t = "object" /\ key \in DOMAIN j.v /\ j.v[key].t = "string"
    THEN j.v[key].v ELSE EmptyStr

\* a codex line that fails JSON decoding
CodexUndecodable(line) == CodexJSON(line.body).t \notin {"object", "null"}

IsTurnFailed(line) == KeyOf(CodexJSON(line.body), "type") = TurnFailed

\* the positions of the turn.failed lines consumed
TurnFailedAt == {i \in 1..Len(consumed) : IsTurnFailed(consumed[i])}

\* a claude line of type result, whether it reports an error, and its text
IsClaudeResult(line) == KeyOf(ClaudeJSON(line.body), "type") = <<"result">>

ClaudeResultFailed(line) ==
    LET j == ClaudeJSON(line.body) IN
    \/ "is_error" \in DOMAIN j.v /\ j.v.is_error.t = "bool" /\ j.v.is_error.v
    \/ KeyOf(j, "subtype") = <<"error">>

ClaudeResultText(line) == KeyOf(ClaudeJSON(line.body), "result")

ClaudeResultAt == {i \in 1..Len(consumed) : IsClaudeResult(consumed[i])}

\* a terminal error event was decoded during the run
TerminalErrorDecoded ==
    IF adapter = "codex" THEN TurnFailedAt # {}
    ELSE \E i \in ClaudeResultAt : ClaudeResultFailed(consumed[i])

\* a string with a character that is not white space
NotBlank(s) == \E i \in 1..Len(s) : s[i] \notin Whitespace

----------------------------------------------------------------------------
(* The claims *)

\* C1: in a Codex Run with a non-nil handler the handler receives at most
\* one terminal event (Result or ResultError) in total, the events of the
\* decoded turn.failed lines and the event synthesized at exit together.
C1_AtMostOneTerminalEvent ==
    (adapter = "codex" /\ handler) => Len(TerminalEvents) <= 1

\* C2: in a Claude Run with an observability sink the sink receives at most
\* one RecordCompletion call per Run, whatever the number of result lines.
C2_AtMostOneCompletionRecord ==
    (adapter = "claude" /\ observability) => Len(records) <= 1

\* C3: if a terminal error event was decoded during a Run (turn.failed for
\* Codex, a result line flagged as error for Claude), Run returns a non-nil
\* error and every CompletionRecord of the run has IsError = TRUE, also when
\* the process exits with status 0.
C3_DecodedFailureIsAuthoritative ==
    (Exited /\ TerminalErrorDecoded) =>
        /\ ret.err # "nil"
        /\ \A i \in 1..Len(records) : records[i].IsError

\* C4: whenever the process wait resolves with an error and the context is
\* already canceled, Run (Codex and Claude) returns exactly the context's
\* cancellation error, whatever the lines decoded.
C4_CancellationPrecedence ==
    (Exited /\ exit.waitErr /\ exit.ctxErr) =>
        ret = Return(EmptyStr, "ctx.Err", "", EmptyStr)

\* C4 witness: a Codex Run that decoded a turn.failed line, captured stderr
\* text, and then saw the wait fail with the context canceled.
C4_Witness ==
    /\ adapter = "codex"
    /\ Exited /\ exit.waitErr /\ exit.ctxErr
    /\ state.resultEmitted
    /\ stderrBuf # EmptyStr
    /\ ret.err = "ctx.Err"

\* the codex lines of the run that decode, in the order consumed
DecodedLines == SelectSeq(consumed, LAMBDA line : ~CodexUndecodable(line))

\* the runState, events and output-stream bytes of handling the lines given,
\* one after the other, from a fresh runState
RECURSIVE Replay(_, _, _)
Replay(lines, h, out) ==
    IF lines = << >> THEN [s |-> ZeroRunState, ev |-> << >>, out |-> EmptyStr]
    ELSE LET before == Replay(SubSeq(lines, 1, Len(lines) - 1), h, out)
             r == handleJSONLine(before.s, lines[Len(lines)].body, h, out)
         IN  [s |-> r.s, ev |-> before.ev \o r.ev, out |-> before.out \o r.out]

\* consuming a line that fails JSON decoding changes nothing the handler, the
\* sink or the runState sees, and leaves the loop running
C5_SkipStep ==
    (/\ adapter = "codex"
     /\ Len(consumed') = Len(consumed) + 1
     /\ CodexUndecodable(consumed'[Len(consumed')]))
        => /\ events' = events
           /\ records' = records
           /\ state' = state
           /\ streamOut' = streamOut
           /\ pc' = "running"
           /\ ret' = ret

\* while the loop runs, the runState, the events and the output are those of
\* the decodable lines alone
C5_AsIfAbsent ==
    (adapter = "codex" /\ pc = "running") =>
        /\ state = Replay(DecodedLines, handler, outputStream).s
        /\ events = Replay(DecodedLines, handler, outputStream).ev
        /\ streamOut = Replay(DecodedLines, handler, outputStream).out

\* C5: a line that fails JSON decoding, on either stream and at any position,
\* makes the Codex decode loop dispatch no event, leaves session id, turn
\* count, cost, duration, last error and assistant text unchanged and does
\* not end the run: the later lines are processed as if it had not been there.
C5_UndecodableLineSkipped == [][C5_SkipStep]_vars /\ []C5_AsIfAbsent

\* C5 witness: an undecodable stderr line between two assistant deltas, both
\* of which reached the handler and the accumulated text.
C5_Witness ==
    /\ adapter = "codex" /\ pc = "running" /\ handler
    /\ Len(consumed) = 3
    /\ ~CodexUndecodable(consumed[1])
    /\ CodexUndecodable(consumed[2]) /\ consumed[2].fromStderr
    /\ state.assistantText = <<"hello ", "world">>
    /\ Len(events) = 2

\* the assistant text streamed by the lines consumed, in decode order
RECURSIVE StreamedText(_)
StreamedText(lines) ==
    IF lines = << >> THEN EmptyStr
    ELSE LET j == CodexJSON(Head(lines).body) IN
         (IF j.t = "object"
          THEN extractAssistantText(KeyOf(j, "type"), j.v) ELSE EmptyStr)
            \o StreamedText(Tail(lines))

\* C6: when a Codex process exits 0 and no terminal event was decoded, Run
\* returns (text, nil), where text is the content of the last-message file if
\* that file is readable and not blank and otherwise the concatenation of the
\* streamed assistant text in decode order, and the handler (when there is
\* one) receives exactly one Result event, the last event, with that Text.
C6_SynthesizedResult ==
    (adapter = "codex" /\ ExitedZero /\ TurnFailedAt = {}) =>
        /\ ret.err = "nil"
        /\ ret.Text = IF exit.lastMsgOK /\ NotBlank(exit.lastMsg) THEN exit.lastMsg
                      ELSE StreamedText(consumed)
        /\ handler =>
              /\ Len(TerminalEvents) = 1
              /\ events[Len(events)].Type = EventResult
              /\ events[Len(events)].Text = ret.Text

\* C6 witness: two deltas streamed, a blank last-message file, exit 0: the
\* streamed text is returned and synthesized.
C6_Witness ==
    /\ adapter = "codex" /\ ExitedZero /\ handler
    /\ exit.lastMsgOK /\ exit.lastMsg = <<" ">>
    /\ ret.Text = <<"hello ", "world">>
    /\ events[Len(events)].Type = EventResult

\* the message a turn.failed line carries ("" if none)
CarriedMessage(line) ==
    LET j == CodexJSON(line.body) IN
    IF KeyOf(j, "message") # EmptyStr THEN KeyOf(j, "message")
    ELSE IF "error" \in DOMAIN j.v THEN KeyOf(j.v.error, "message")
    ELSE EmptyStr

\* C7: when a Codex stream contains a turn.failed line carrying an error
\* message and the process exits non-zero without cancellation, the handler
\* receives a ResultError whose Text is that message, Run returns an ExitError,
\* and no further error event is synthesized at exit: the terminal events are
\* those of the turn.failed lines.
C7_FailedTurnThenExitError ==
    (/\ adapter = "codex" /\ ExitedNonZero
     /\ \E i \in TurnFailedAt : CarriedMessage(consumed[i]) # EmptyStr)
        => /\ ret.err = "ExitError"
           /\ ret.Text = EmptyStr
           /\ handler =>
                /\ \A i \in TurnFailedAt :
                      CarriedMessage(consumed[i]) # EmptyStr =>
                         \E k \in 1..Len(events) :
                            /\ events[k].Type = EventResultError
                            /\ events[k].Text = CarriedMessage(consumed[i])
                /\ Len(TerminalEvents) = Cardinality(TurnFailedAt)

\* C7 witness: thread.started, turn.started, turn.failed with "boom", exit 1.
C7_Witness ==
    /\ adapter = "codex" /\ ExitedNonZero /\ handler
    /\ Len(consumed) = 3 /\ TurnFailedAt = {3}
    /\ events[Len(events)].Type = EventResultError
    /\ events[Len(events)].Text = <<"boom">>
    /\ ret.err = "ExitError"

\* the stderr text of the lines consumed that are not JSON, a newline after each
RECURSIVE StderrDiagnostics(_)
StderrDiagnostics(lines) ==
    IF lines = << >> THEN EmptyStr
    ELSE (IF Head(lines).fromStderr /\ CodexJSON(Head(lines).body).t = "invalid"
          THEN <<Head(lines).body, "\n">> ELSE EmptyStr)
            \o StderrDiagnostics(Tail(lines))

\* the stderr text a Run has captured when the process ends
CapturedStderr ==
    IF adapter = "codex" THEN StderrDiagnostics(consumed) ELSE exit.stderr

C9_ResultLineReturned ==
    (adapter = "claude" /\ ExitedZero /\ observability) =>
        \A i \in ClaudeResultAt :
            ~ClaudeResultFailed(consumed[i]) =>
                /\ ret.err = "nil"
                /\ ret.Text = ClaudeResultText(consumed[i])
                /\ Len(records) = 1
                /\ ~records[1].IsError

\* the text blocks of the assistant lines consumed, in order
RECURSIVE ClaudeStreamedText(_)
ClaudeStreamedText(lines) ==
    IF lines = << >> THEN EmptyStr
    ELSE LET j == ClaudeJSON(Head(lines).body) IN
         (IF KeyOf(j, "type") = <<"assistant">>
          THEN AssistantBlocks(StreamEventOf(j).Message.Content, FALSE, TRUE).out
          ELSE EmptyStr)
            \o ClaudeStreamedText(Tail(lines))

C11_SynthesizedFromDiagnostics ==
    (adapter = "codex" /\ ExitedNonZero /\ TurnFailedAt = {} /\ handler) =>
        /\ Len(TerminalEvents) = 1
        /\ TerminalEvents[1].Type = EventResultError
        /\ TerminalEvents[1].Text = StderrDiagnostics(consumed)

\* the options of a run configuration that Codex does not support
UnsupportedOptions(c) ==
    {o \in {"WithMaxTurns", "WithMaxOutputTokens", "WithAllowedTools",
            "WithDisallowedTools"} :
        \/ o = "WithMaxTurns" /\ c.MaxTurns > 0
        \/ o = "WithMaxOutputTokens" /\ c.MaxOutputTokens > 0
        \/ o = "WithAllowedTools" /\ c.AllowedTools > 0
        \/ o = "WithDisallowedTools" /\ c.DisallowedTools > 0}

\* C12: a Codex Run called with a max-turn limit > 0, a max-output-token
\* limit > 0, a non-empty allowed-tools list or a non-empty disallowed-tools
\* list returns an UnsupportedOptionError naming such an option before any
\* side effect: no temp file, no process, no handler event, no record.
C12_UnsupportedOptionRejected ==
    (adapter = "codex" /\ pc # "idle" /\ UnsupportedOptions(runConfig) # {}) =>
        /\ pc = "done"
        /\ ret.err = "UnsupportedOptionError"
        /\ ret.Option \in UnsupportedOptions(runConfig)
        /\ ret.Text = EmptyStr
        /\ lastMsgFile = "none"
        /\ spawn = "none"
        /\ events = << >>
        /\ records = << >>

\* C12 witness: a client with a default handler and a sink, Run called with a
\* disallowed-tools list only.
C12_Witness ==
    /\ adapter = "codex" /\ pc = "done" /\ eventHandler /\ observability
    /\ UnsupportedOptions(runConfig) = {"WithDisallowedTools"}
    /\ ret.err = "UnsupportedOptionError"
    /\ ret.Option = "WithDisallowedTools"

RECURSIVE LastNumber(_, _)
LastNumber(lines, key) ==
    IF lines = << >> THEN 0
    ELSE LET j == CodexJSON(lines[Len(lines)].body) IN
         IF j.t = "object" /\ key \in DOMAIN j.v /\ j.v[key].t = "number"
         THEN j.v[key].v
         ELSE LastNumber(SubSeq(lines, 1, Len(lines) - 1), key)

\* C14 as stated: after any sequence of decoded Codex lines the run's cost
\* and duration equal the cost_usd and duration_ms values of the most recent
\* line that carried that numeric field (zero if no line did).
C14_Original ==
    adapter = "codex" =>
        /\ state.costUSD = LastNumber(consumed, "cost_usd")
        /\ 2 * state.durationMS = LastNumber(consumed, "duration_ms")

\* C14 (amended): after any sequence of decoded Codex lines the run's cost
\* equals the cost_usd value of the most recent line that carried a numeric
\* cost_usd, and the run's duration equals the duration_ms value of the most
\* recent line that carried a numeric duration_ms with its fraction dropped
\* (zero if no line did): a later value overwrites, values are never summed.
C14_LastWriteWins ==
    adapter = "codex" =>
        /\ state.costUSD = LastNumber(consumed, "cost_usd")
        /\ state.durationMS = LastNumber(consumed, "duration_ms") \div 2

\* C14 witness: cost 0.5 and duration 12.5 came first, then cost 1.5 with a
\* duration that is not a number: the cost is 1.5, the duration 12.
C14_Witness ==
    /\ adapter = "codex" /\ Len(consumed) = 2
    /\ LastNumber(SubSeq(consumed, 1, 1), "cost_usd") = 1
    /\ state.costUSD = 3
    /\ state.durationMS = 12

\* C15: every Codex Run that created the last-message temp file has removed
\* it by the time Run returns, on every return path after its creation:
\* pipe-setup error, spawn failure, cancellation, non-zero exit and success.
C15_TempFileRemoved ==
    adapter = "codex" =>
        /\ (pc = "done" /\ spawn \notin {"none", "CreateTemp"}) => lastMsgFile = "removed"
        /\ lastMsgFile = "created" => pc = "running"
        /\ spawn \in {"none", "CreateTemp"} => lastMsgFile = "none"

\* C15 witness: the process ran, the wait failed with the context canceled,
\* and the file is gone.
C15_Witness ==
    /\ adapter = "codex" /\ Exited /\ exit.waitErr /\ exit.ctxErr
    /\ consumed # << >>
    /\ lastMsgFile = "removed"

\* the decode loop over the lines given, from a fresh runState and an empty
\* stderrBuf
RECURSIVE DecodeLoop(_, _, _)
DecodeLoop(lines, h, out) ==
    IF lines = << >>
    THEN [s |-> ZeroRunState, buf |-> EmptyStr, ev |-> << >>, out |-> EmptyStr]
    ELSE LET before == DecodeLoop(SubSeq(lines, 1, Len(lines) - 1), h, out)
             r == Consume(before.s, before.buf, lines[Len(lines)], h, out)
         IN  [s |-> r.s, buf |-> r.buf, ev |-> before.ev \o r.ev,
              out |-> before.out \o r.out]

\* C16: for the same lines, the same last-message file and the same exit, a
\* Codex Run with a nil handler and one with a non-nil handler return the same
\* text and error and dispatch the same CompletionRecord: a nil handler
\* suppresses event dispatch only and never changes session id, turn count,
\* cost, duration, last error or accumulated text.
C16_NilHandlerSuppressesEventsOnly ==
    (adapter = "codex" /\ Exited) =>
        LET mine == DecodeLoop(consumed, handler, outputStream)
            other == DecodeLoop(consumed, ~handler, outputStream)
            otherEnd == CodexFinish(other.s, other.buf, ~handler, observability, exit)
        IN  /\ state = mine.s
            /\ other.s = state
            /\ otherEnd.ret = ret
            /\ otherEnd.rec = records
            /\ ~handler => events = << >>

\* C16 witness: a Run without handler that counted a turn, accumulated text
\* and harvested a cost, recorded them at exit 0 and dispatched no event.
C16_Witness ==
    /\ adapter = "codex" /\ ExitedZero /\ ~handler /\ observability
    /\ state.numTurns = 1 /\ state.assistantText # EmptyStr /\ state.costUSD > 0
    /\ Len(records) = 1 /\ records[1].NumTurns = 1
    /\ events = << >>

\* a is an initial part of b
IsPrefix(a, b) == Len(a) <= Len(b) /\ SubSeq(b, 1, Len(a)) = a

\* the bodies of the lines of one stream among the lines given, in order
RECURSIVE BodiesFrom(_, _)
BodiesFrom(ls, fromStderr) ==
    IF ls = << >> THEN << >>
    ELSE (IF Head(ls).fromStderr = fromStderr THEN <<Head(ls).body>> ELSE << >>)
            \o BodiesFrom(Tail(ls), fromStderr)

\* the consumer takes the oldest line of the channel and the handler receives
\* exactly that line's events, appended; no other step but Run's exit gives
\* the handler an event
C17_Step ==
    adapter = "codex" =>
        /\ consumed' # consumed =>
              /\ lineChan # << >>
              /\ consumed' = Append(consumed, Head(lineChan))
              /\ lineChan' = Tail(lineChan)
              /\ events' = events \o Consume(state, stderrBuf, Head(lineChan), handler,
                                             outputStream).ev
        /\ events' # events =>
              (consumed' # consumed \/ (pc = "running" /\ pc' = "done"))

\* every line sent is consumed or still in the channel, in the order sent; the
\* lines of each stream are consumed in the order the child wrote them; the
\* events are those of the lines consumed, in that order, and then the exit's
C17_Ordered ==
    adapter = "codex" =>
        /\ sent = consumed \o lineChan
        /\ pc = "done" => consumed = sent
        /\ IsPrefix(BodiesFrom(consumed, FALSE), script.out)
        /\ IsPrefix(BodiesFrom(consumed, TRUE), script.err)
        /\ pc = "running" => events = DecodeLoop(consumed, handler, outputStream).ev
        /\ pc = "done" =>
              events = DecodeLoop(consumed, handler, outputStream).ev
                          \o CodexFinish(state, stderrBuf, handler, observability, exit).ev

\* C17: within one Codex Run the events the handler receives are exactly the
\* events produced for each consumed line, in the order the consumer took the
\* lines from the multiplexed channel: the handler is invoked by the single
\* consumer, and no event is reordered, batched or dropped.
C17_EventsInConsumptionOrder == [][C17_Step]_vars /\ []C17_Ordered

\* C17 witness: a stderr line was consumed before two stdout lines, and the
\* handler has the events of the stdout lines in the order written.
C17_Witness ==
    /\ adapter = "codex" /\ pc = "done" /\ handler
    /\ Len(consumed) = 3
    /\ consumed[1].fromStderr /\ ~consumed[2].fromStderr /\ ~consumed[3].fromStderr
    /\ consumed[2].body # consumed[3].body
    /\ Len(events) >= 3
    /\ events[1].Type # events[2].Type

\* C18: whenever a Codex Run that started the process returns, both reader
\* goroutines and the channel-closing goroutine have finished: none is still
\* scanning or blocked sending on the channel, on the success, failure and
\* cancellation paths alike.
C18_GoroutinesJoined ==
    (adapter = "codex" /\ pc = "done" /\ spawn = "started") =>
        /\ reader.out.pc = "done"
        /\ reader.err.pc = "done"
        /\ linesClosed
        /\ lineChan = << >>

\* C18 witness: the context was canceled after lines of both streams were
\* sent; Run returned the cancellation error with its goroutines finished.
C18_Witness ==
    /\ adapter = "codex" /\ pc = "done" /\ canceled
    /\ BodiesFrom(sent, FALSE) # << >> /\ BodiesFrom(sent, TRUE) # << >>
    /\ ret.err = "ctx.Err"
    /\ reader.out.pc = "done" /\ reader.err.pc = "done" /\ linesClosed

\* a read of one of the pipes has failed
ReadFaulted == \E r \in Streams : reader[r] = ReaderAt("done", "read error")

\* C19: a Run (either adapter) never blocks forever because of how the child
\* interleaves its output: for every child that writes a finite amount to
\* stdout and stderr through pipes of bounded capacity and then exits (it is
\* not killed, and no read of a pipe fails), both streams are eventually
\* drained and Run returns.
C19_RunReturns ==
    <>(\/ canceled
       \/ ReadFaulted
       \/ /\ pc = "done"
          /\ \A r \in Streams : written[r] = Len(script[r]) /\ pipe[r] = << >>)

\* every call of fn made so far returned an error
AllCallsFailed == \A i \in 1..Len(calls) : calls[i] # "nil"

\* at most len(Backoff)+1 calls, none after the first that succeeds, and nil
\* returned after a success
C20_CallsBounded ==
    /\ Len(calls) <= Len(backoff) + 1
    /\ \A i \in 1..(Len(calls) - 1) : calls[i] # "nil"
    /\ (calls # << >> /\ calls[Len(calls)] = "nil") =>
          (postPc = "done" /\ postRet = PostReturn("nil", 0, "nil"))

\* C20 as stated: PostWithRetry calls fn at most len(Backoff)+1 times, makes
\* no further call after the first call that succeeds and then returns nil,
\* and when every call failed returns a non-nil error that wraps the error of
\* the last call.
C20_Original ==
    /\ C20_CallsBounded
    /\ (postPc = "done" /\ AllCallsFailed) =>
          (postRet.kind # "nil" /\ postRet.wraps = calls[Len(calls)])

\* C20 (amended): PostWithRetry calls fn at most len(Backoff)+1 times, makes
\* no further call after the first call that succeeds and then returns nil;
\* when all len(Backoff)+1 calls failed it returns a non-nil error that wraps
\* the error of the last call; when the context is done during a backoff wait
\* it stops calling fn and returns ctx.Err(), which wraps no error of fn.
C20_RetryThenWrapOrCancel ==
    /\ C20_CallsBounded
    /\ (postPc = "done" /\ AllCallsFailed) =>
          \/ /\ postRet = PostReturn("retries", Len(backoff), calls[Len(calls)])
             /\ Len(calls) = Len(backoff) + 1
          \/ /\ postRet = PostReturn("ctx.Err", 0, "nil")
             /\ calls # << >>
             /\ Len(calls) <= Len(backoff)

\* C20 witness: a Backoff of two delays, three failed calls, the error of the
\* third wrapped in the error returned.
C20_Witness ==
    /\ postPc = "done" /\ Len(backoff) = 2
    /\ calls = <<"e1", "e1", "e2">>
    /\ postRet = PostReturn("retries", 2, "e2")

C22_Step ==
    (postPc = "select" /\ postPc' = "done") =>
        /\ postRet' = PostReturn("ctx.Err", 0, "nil")
        /\ calls' = calls
        /\ attempt' = attempt

\* a return of the context's error came during the wait after the last call
\* made, before that wait's delay elapsed
C22_DuringWait ==
    postRet.kind = "ctx.Err" =>
        /\ postPc = "done"
        /\ postRet.wraps = "nil"
        /\ AllCallsFailed
        /\ Len(calls) = attempt + 1
        /\ attempt < Len(backoff)

\* C22: if the context is canceled while PostWithRetry is waiting out a
\* backoff between attempts, it returns the context's error itself,
\* unwrapped, without waiting for the backoff to elapse and without calling
\* fn again.
C22_CancelDuringBackoff == [][C22_Step]_vars /\ []C22_DuringWait

\* C22 witness: two failed calls, then the context done during the second of
\* three delays.
C22_Witness ==
    /\ Len(backoff) = 3 /\ postPc = "done"
    /\ calls = <<"e1", "e2">>
    /\ attempt = 1
    /\ postRet = PostReturn("ctx.Err", 0, "nil")


\* the request that answered the last StartSession that succeeded through
\* chat.postMessage before request j (0: none)
SessionStartBefore(j) ==
    LET S == {i \in 1..(j - 1) : /\ requests[i].op = "StartSession"
                                 /\ requests[i].api = "postMessage"
                                 /\ requests[i].ok}
    IN IF S = {} THEN 0 ELSE CHOOSE i \in S : \A k \in S : k <= i

\* C23: a StartSession request carries no thread timestamp; once a
\* StartSession has succeeded in bot-token mode, every later Send and
\* EndSession request carries the timestamp Slack returned for the session
\* message; without a bot token the notifier's thread timestamp stays empty
C23_SessionThreaded ==
    /\ \A j \in 1..Len(requests) :
         /\ requests[j].op = "StartSession" => requests[j].ThreadTS = EmptyStr
         /\ (requests[j].op \in {"Send", "EndSession"} /\ SessionStartBefore(j) # 0)
                => requests[j].ThreadTS = requests[SessionStartBefore(j)].ts
    /\ notifierCfg.BotToken = EmptyStr => threadTS = EmptyStr

\* a session was started with a bot token, and a Send and then an EndSession
\* were posted as replies in its thread
C23_Witness ==
    \E i, j, k \in 1..Len(requests) :
        /\ i < j /\ j < k
        /\ requests[i].op = "StartSession" /\ requests[i].ok
        /\ requests[i].ts = <<"ts1">>
        /\ requests[j].op = "Send" /\ requests[j].ThreadTS = <<"ts1">>
        /\ requests[k].op = "EndSession" /\ requests[k].ThreadTS = <<"ts1">>


\* the step is a call of the Provider other than StartTrace
C24_OtherCall ==
    /\ Len(provCalls') = Len(provCalls) + 1
    /\ provCalls'[Len(provCalls')].op # "StartTrace"

C24_Step ==
    (root = NoNode /\ C24_OtherCall)
        => UNCHANGED <<root, currentPhase, phaseStart, toolStart, toolNodes, traceID,
                       inputTokens, outputTokens, files>>

\* C24: while the Provider has no active trace, EndTrace, RecordCompletion
\* and every event passed to the handler change nothing: no file is written,
\* no node is created, the token counters and the tool maps stay as they are
C24_NoTraceNoOp == [][C24_Step]_vars

\* a completion arrived before the first StartTrace and a tool use after the
\* EndTrace of a trace that was written
C24_Witness ==
    /\ root = NoNode
    /\ Len(provCalls) = 4
    /\ provCalls[1].op = "RecordCompletion"
    /\ provCalls[2].op = "StartTrace"
    /\ provCalls[3].op = "EndTrace"
    /\ provCalls[4].op = "Event" /\ provCalls[4].arg.Type = "tool_use"
    /\ DOMAIN files # {}

\* the calls the Provider received after the last StartTrace
TraceCalls ==
    LET S == {i \in 1..Len(provCalls) : provCalls[i].op = "StartTrace"}
        last == IF S = {} THEN 0 ELSE CHOOSE i \in S : \A k \in S : k <= i
    IN SubSeq(provCalls, last + 1, Len(provCalls))

\* what a child of the root is to the reader of the trace: its type, its
\* name, and the names of the tool calls under it
Child(type, name, tools) == [NodeType |-> type, AgentName |-> name, tools |-> tools]

\* the children the root has after the calls cs, as the contract states them:
\* a marker and a phase for each EventPhase, a leading `default` phase when a
\* tool use or a completion comes first, each tool use under the last phase
RECURSIVE ExpectedChildren(_)
ExpectedChildren(cs) ==
    IF cs = << >> THEN << >>
    ELSE LET before == ExpectedChildren(SubSeq(cs, 1, Len(cs) - 1))
             c == cs[Len(cs)]
             opened == IF before = << >>
                       THEN <<Child("phase", <<"default">>, << >>)>>
                       ELSE before
         IN IF c.op = "Event" /\ c.arg.Type = "phase"
            THEN before \o <<Child("marker", <<"-> ">> \o c.arg.PhaseName, << >>),
                             Child("phase", c.arg.PhaseName, << >>)>>
            ELSE IF c.op = "Event" /\ c.arg.Type = "tool_use"
            THEN [opened EXCEPT ![Len(opened)].tools = Append(@, c.arg.ToolName)]
            ELSE IF c.op = "RecordCompletion"
            THEN opened
            ELSE before

\* the children of the root, read the same way
ActualChildren ==
    [i \in 1..Len(root.Children) |->
        Child(root.Children[i].NodeType, root.Children[i].AgentName,
              [k \in 1..Len(root.Children[i].Children) |->
                  root.Children[i].Children[k].AgentName])]

\* C25: inside one trace the root's children are, in call order, a marker and
\* then a phase for each EventPhase, preceded by one phase named `default`
\* exactly when a tool use or a completion arrived before the first
\* EventPhase; each tool-use node is a child of the phase that was current
\* when it arrived, and a tool result never adds a node
C25_TreeShape ==
    root # NoNode => ActualChildren = ExpectedChildren(TraceCalls)

\* a tool use opened the default phase, an EventPhase followed, and a second
\* tool use went under the new phase
C25_Witness ==
    /\ root # NoNode
    /\ Len(root.Children) = 3
    /\ root.Children[1].AgentName = <<"default">>
    /\ Len(root.Children[1].Children) = 1
    /\ root.Children[2].NodeType = "marker"
    /\ Len(root.Children[3].Children) = 1


\* the number of assistant headers printed so far
HeaderCount == Cardinality({i \in 1..Len(output) : output[i].kind = "header"})

\* the logger with every switch on, as NewLogger(w) builds it
DefaultLogger ==
    [assistant |-> TRUE, toolUse |-> TRUE, toolResult |-> TRUE, result |-> TRUE]

\* the turns of the events evs: whether one is open after them and how many
\* were opened.  An AssistantStart opens a turn; an assistant text or a tool
\* use opens one when none is open; a Result or ResultError closes it, and
\* so does a system init event when initCloses is set.  The switches c say
\* which events the logger looks at
RECURSIVE Turns(_, _, _)
Turns(evs, c, initCloses) ==
    IF evs = << >> THEN [open |-> FALSE, n |-> 0]
    ELSE LET prev == Turns(SubSeq(evs, 1, Len(evs) - 1), c, initCloses)
             e == evs[Len(evs)]
             opened == [open |-> TRUE, n |-> prev.n + 1]
         IN IF e.Type = "assistant_start" /\ c.assistant THEN opened
            ELSE IF e.Type = "assistant" /\ c.assistant
            THEN (IF prev.open THEN prev ELSE opened)
            ELSE IF e.Type = "tool_use" /\ c.toolUse /\ c.assistant
            THEN (IF prev.open THEN prev ELSE opened)
            ELSE IF e.Type \in {"result", "result_error"} /\ c.result
            THEN [prev EXCEPT !.open = FALSE]
            ELSE IF initCloses /\ e.Type = "system" /\ e.Subtype = <<"init">>
            THEN [prev EXCEPT !.open = FALSE]
            ELSE prev

\* C26 as stated: the logger prints one assistant header per turn, where a
\* turn is opened by an AssistantStart or by the first assistant text or tool
\* use after the previous turn ended, and only a Result or a ResultError ends
\* a turn (read for the logger with every switch on)
C26_Original ==
    loggerCfg = DefaultLogger => HeaderCount = Turns(logged, DefaultLogger, FALSE).n

\* C26, amended: the logger prints one assistant header per turn, where a
\* system init event ends the open turn as a Result or a ResultError does,
\* and where the switches of the logger decide which events it looks at:
\* no header without assistant logging, no turn opened by a tool use without
\* tool-use logging, no turn ended by a result without result logging
C26_OneHeaderPerTurn ==
    HeaderCount = Turns(logged, loggerCfg, TRUE).n

\* the default logger saw a turn opened by an AssistantStart, a text in it,
\* its Result, and the first text of the next turn: two headers
C26_Witness ==
    /\ loggerCfg = DefaultLogger
    /\ Len(logged) = 4
    /\ logged[1].Type = "assistant_start"
    /\ logged[2].Type = "assistant"
    /\ logged[3].Type = "result"
    /\ logged[4].Type = "assistant"
    /\ HeaderCount = 2


\* both reader goroutines have returned
BothReadersDone == reader.out.pc = "done" /\ reader.err.pc = "done"

\* a closed channel stays closed and receives no line; the step that closes
\* it is taken with both readers finished
C27_Step ==
    adapter = "codex" =>
        /\ linesClosed => (linesClosed' /\ sent' = sent)
        /\ (~linesClosed /\ linesClosed') => (BothReadersDone /\ sent' = sent)

\* C27: the channel of streamLines is closed once, and only after both
\* reader goroutines have finished; under every interleaving of the readers,
\* the closer and the consumer no reader sends on the closed channel
C27_ClosedOnceAfterReaders ==
    [][C27_Step]_vars /\ []((adapter = "codex" /\ linesClosed) => BothReadersDone)

\* the channel was closed while the consumer still had lines of both streams
\* to receive from it
C27_Witness ==
    /\ adapter = "codex" /\ linesClosed /\ pc = "running"
    /\ Len(lineChan) = 2
    /\ lineChan[1].fromStderr # lineChan[2].fromStderr
    /\ BothReadersDone

NotTooLong(b) == b # TooLong

\* the lines a reader has scanned so far from its pipe, in order: what it took
\* from the pipe, less the lines that did not fit the scanner's buffer
Scanned(r) ==
    SelectSeq(SubSeq(script[r], 1, written[r] - Len(pipe[r])), NotTooLong)

\* the line a reader has scanned and not yet sent
Held(r) == IF reader[r].pc = "send" THEN <<reader[r].body>> ELSE << >>

\* C28: every line scanned from stdout or stderr is delivered to the consumer
\* exactly once, tagged with its source, the lines of one source in the order
\* they were read, under every interleaving of the readers and the consumer;
\* the bounded channel blocks the producer and never drops or repeats a line
C28_DeliveredOnce ==
    adapter = "codex" =>
        /\ \A r \in Streams : BodiesFrom(sent, r = "err") \o Held(r) = Scanned(r)
        /\ consumed \o lineChan = sent
        /\ Len(lineChan) <= ChanCap
        /\ pc = "done" => \A r \in Streams : BodiesFrom(consumed, r = "err") = Scanned(r)

\* the channel is full of lines of both streams and a reader is blocked with
\* the next line in hand
C28_Witness ==
    /\ adapter = "codex"
    /\ Len(lineChan) = ChanCap
    /\ \E r \in Streams : reader[r].pc = "send"
    /\ BodiesFrom(sent, FALSE) # << >> /\ BodiesFrom(sent, TRUE) # << >>

\* C29: when a source emits a line longer than the maximum line size, only
\* that line is skipped: a Run that returns (not canceled, no read fault) has
\* delivered every other line of both sources to the consumer
C29_LaterLinesDelivered ==
    (adapter = "codex" /\ pc = "done" /\ ~canceled /\ ~ReadFaulted) =>
        \A r \in Streams :
            BodiesFrom(consumed, r = "err") = SelectSeq(script[r], NotTooLong)

\* every line of the child fits the scanner's buffer
NoLongLine ==
    \A r \in Streams : \A i \in 1..Len(script[r]) : script[r][i] # TooLong

\* C30: if the reader of one source stops early because a read of its pipe
\* fails, the other source is still drained, the channel is eventually closed
\* and the consumer loop terminates (unless the Run is canceled)
C30_FaultNeverWedges ==
    (adapter = "codex" /\ NoLongLine /\ ReadFaulted)
        ~> (canceled \/ (linesClosed /\ lineChan = << >>))


\* the text of the stderr lines among the lines given that are not a JSON
\* object, a newline after each
RECURSIVE StderrNonObjects(_)
StderrNonObjects(lines) ==
    IF lines = << >> THEN EmptyStr
    ELSE (IF Head(lines).fromStderr /\ CodexJSON(Head(lines).body).t # "object"
          THEN <<Head(lines).body, "\n">> ELSE EmptyStr)
            \o StderrNonObjects(Tail(lines))

\* C31: in a Codex Run the diagnostic buffer reported in the ExitError holds
\* the raw text of every stderr line that fails to parse as a JSON object,
\* a line that is valid JSON but not an object included, and no stdout line
C31_NonObjectStderrCaptured ==
    (adapter = "codex" /\ ExitedNonZero) =>
        /\ ret.err = "ExitError"
        /\ ret.Stderr = StderrNonObjects(consumed)


\* the line is a JSON object whose type is user
IsUserLine(line) ==
    KeyOf(ClaudeJSON(line.body), "type") = <<"user">>

\* the content blocks of the message of a user line
UserBlocks(line) ==
    LET m == Get(ClaudeJSON(line.body).v, "message")
    IN IF m.t = "object" /\ Get(m.v, "content").t = "array"
       THEN Get(m.v, "content").v ELSE << >>

IsToolResultBlock(b) == KeyOf(b, "type") = <<"tool_result">>

\* an event as the type it has and the tool it names
Brief(type, id) == [Type |-> type, ToolID |-> id]

\* what the handler is to receive for a user line: a ToolResult event for
\* each tool_result block, in block order, and then one AssistantStart if
\* there was such a block
UserLineEvents(line) ==
    LET results == SelectSeq(UserBlocks(line), IsToolResultBlock)
    IN [i \in 1..Len(results) |->
            Brief(EventToolResult, KeyOf(results[i], "tool_use_id"))]
       \o (IF results # << >>
           THEN <<Brief(EventAssistantStart, EmptyStr)>> ELSE << >>)

\* the events the step dispatched
Dispatched ==
    [i \in 1..(Len(events') - Len(events)) |->
        Brief(events'[Len(events) + i].Type, events'[Len(events) + i].ToolID)]

C32_Step ==
    (/\ adapter = "claude" /\ handler
     /\ Len(consumed') = Len(consumed) + 1
     /\ IsUserLine(consumed'[Len(consumed')]))
        => Dispatched = UserLineEvents(consumed'[Len(consumed')])

\* C32: for a Claude user line the handler receives one ToolResult event per
\* tool_result content block, in block order, followed immediately by exactly
\* one synthetic AssistantStart if there was at least one such block, and
\* nothing if there was none
C32_UserLineEvents == [][C32_Step]_vars

\* the goroutine was started for an event the handler received after the
\* init event that started the session
AfterInit(g) ==
    \E j \in DOMAIN goroutines :
        /\ goroutines[j].op = "StartSession"
        /\ goroutines[j].ev < goroutines[g].ev

\* the goroutine posted a reply in the thread of the session-start message
InSessionThread(g) ==
    \E j \in DOMAIN goroutines :
        /\ goroutines[j].op = "StartSession"
        /\ goroutines[j].ok /\ goroutines[j].ts # EmptyStr
        /\ goroutines[g].api = "postMessage"
        /\ goroutines[g].ThreadTS = goroutines[j].ts

\* C33: with the Slack event handler and a bot-token notifier, the
\* notification for every error, result or tool-use event handled after the
\* init event is posted as a reply in the session thread, under every
\* interleaving of the goroutines the handler starts
C33_RepliesThreaded ==
    \A g \in DOMAIN goroutines :
        (/\ goroutines[g].op \in {"Send", "EndSession"}
         /\ goroutines[g].pc = "done"
         /\ AfterInit(g))
            => InSessionThread(g)


\* the step is a call of op
BelayCallOf(op) ==
    /\ Len(provCalls') = Len(provCalls) + 1
    /\ provCalls'[Len(provCalls')].op = op

\* the children of a written tree, read as ActualChildren reads the root's
WrittenChildren(tree) ==
    [i \in 1..Len(tree.Children) |->
        Child(tree.Children[i].NodeType, tree.Children[i].AgentName,
              [k \in 1..Len(tree.Children[i].Children) |->
                  tree.Children[i].Children[k].AgentName])]

C34_Step ==
    /\ (root # NoNode /\ BelayCallOf("StartTrace"))
          => /\ files' = files
             /\ root'.Children = << >>
             /\ currentPhase' = 0
             /\ toolStart' = {} /\ toolNodes' = << >>
             /\ inputTokens' = 0 /\ outputTokens' = 0
    /\ (root # NoNode /\ BelayCallOf("EndTrace"))
          => \A id \in DOMAIN files' :
                (id \notin DOMAIN files \/ files'[id] # files[id])
                    => /\ files'[id].ID = traceID
                       /\ WrittenChildren(files'[id]) = ExpectedChildren(TraceCalls)

\* C34: StartTrace during a trace in progress discards the earlier trace
\* without writing it: after the call the tree has no children and the tool
\* maps and token counters are empty, and a later EndTrace writes only what
\* was recorded after the second StartTrace
C34_StartTraceDiscards == [][C34_Step]_vars

\* a tool use was recorded in a first trace, a second StartTrace followed,
\* and the EndTrace after it wrote one file, a tree without children
C34_Witness ==
    /\ Len(provCalls) = 4
    /\ provCalls[1].op = "StartTrace"
    /\ provCalls[2].op = "Event" /\ provCalls[2].arg.Type = "tool_use"
    /\ provCalls[3].op = "StartTrace"
    /\ provCalls[4].op = "EndTrace"
    /\ DOMAIN files = {provCalls[4].arg}
    /\ files[provCalls[4].arg].Children = << >>


\* the goroutine is inside a method body: Lock has returned, the deferred
\* Unlock has not run
InBody(g) == callers[g].pc = "locked"

\* C35: the belay Provider is safe for concurrent use: with handler events,
\* RecordCompletion, StartTrace and EndTrace called concurrently from several
\* goroutines, every call takes effect atomically (one goroutine at a time
\* is inside a method body, and until its body has run the Provider is as
\* the goroutine found it), so the calls act in the order they took the lock
C35_CallsAtomic ==
    \A g \in Callers :
        InBody(g) =>
            /\ mu = g
            /\ \A h \in Callers \ {g} : ~InBody(h)
            /\ BodyPending(g) => callers[g].snap = ProviderState

\* a tool use was recorded into a trace by one goroutine while the other
\* waits for the lock
C35_Witness ==
    /\ root # NoNode
    /\ Len(provCalls) = 2
    /\ provCalls[2].op = "Event" /\ provCalls[2].arg.Type = "tool_use"
    /\ \E g \in Callers :
         /\ InBody(g) /\ ~BodyPending(g)
         /\ \E h \in Callers \ {g} : callers[h].pc = "lock"


\* the step consumes one more line
LineConsumed == Len(consumed') = Len(consumed) + 1

C37_Step ==
    (adapter = "codex" /\ LineConsumed)
        => /\ Len(events') <= Len(events) + 1
           /\ SubSeq(events', 1, Len(events)) = events

\* C37: each decoded Codex line makes the handler receive at most one event:
\* a line that yields a lifecycle event (System, AssistantStart or
\* ResultError) never also yields an AssistantText event
C37_OneEventPerLine == [][C37_Step]_vars

\* a turn.started line that carries a delta was decoded: the handler got the
\* AssistantStart and no text
C37_Witness ==
    /\ adapter = "codex" /\ handler /\ pc = "running"
    /\ Len(consumed) = 1
    /\ consumed[1].body = "{type:turn.started,delta:hi}"
    /\ Len(events) = 1
    /\ events[1].Type = EventAssistantStart


\* the Text of the AssistantText events among evs, concatenated in order
RECURSIVE EventTexts(_)
EventTexts(evs) ==
    IF evs = << >> THEN EmptyStr
    ELSE (IF Head(evs).Type = EventAssistant THEN Head(evs).Text ELSE EmptyStr)
            \o EventTexts(Tail(evs))

\* C38: at every point of a Codex Run with a handler and an output stream,
\* the accumulated run text, the concatenation of the Text of the
\* AssistantText events dispatched so far and the bytes written so far to the
\* output stream agree
C38_TextRecordsAgree ==
    (adapter = "codex" /\ handler /\ outputStream)
        => /\ state.assistantText = EventTexts(events)
           /\ state.assistantText = streamOut

\* two deltas were decoded around a turn.started line: the three records
\* hold both texts
C38_Witness ==
    /\ adapter = "codex" /\ handler /\ outputStream
    /\ Len(consumed) = 3
    /\ consumed[2].body = "{type:turn.started}"
    /\ streamOut = <<"hello ", "world">>
    /\ state.assistantText = streamOut
    /\ Len(events) = 3


\* the step is the end of Run on the cancellation path: the wait failed and
\* the context is canceled
CanceledExitStep ==
    /\ adapter = "codex"
    /\ pc = "running" /\ pc' = "done"
    /\ exit'.waited /\ exit'.waitErr /\ exit'.ctxErr

\* C39: on the cancellation path of a Codex Run nothing is synthesized: the
\* handler receives no Result or ResultError event at exit and the sink
\* receives no CompletionRecord, whatever lines were decoded before
C39_CancelSynthesizesNothing ==
    [][CanceledExitStep => (events' = events /\ records' = records)]_vars

\* a Run with a handler and a sink decoded a turn and a delta, no terminal
\* event, and ended on the cancellation path with no event and no record
\* added
C39_Witness ==
    /\ adapter = "codex" /\ handler /\ observability
    /\ Exited /\ exit.waitErr /\ exit.ctxErr
    /\ Len(consumed) = 2
    /\ ~state.resultEmitted
    /\ state.numTurns = 1
    /\ state.assistantText # EmptyStr
    /\ TerminalEvents = << >>
    /\ records = << >>


\* the line decodes into an object whose type is turn.started
IsTurnStarted(line) == KeyOf(CodexJSON(line.body), "type") = TurnStarted

\* the number of turn.started lines decoded so far
TurnsStarted == Len(SelectSeq(consumed, IsTurnStarted))

\* C40: the turn count in the CompletionRecord of a Codex Run, and in the
\* synthesized Result event when one is dispatched, equals the number of
\* turn.started lines decoded during that Run, whatever other lines are
\* interleaved with them
C40_TurnCount ==
    adapter = "codex" =>
        /\ \A i \in DOMAIN records : records[i].NumTurns = TurnsStarted
        /\ \A i \in DOMAIN events :
              events[i].Type = EventResult => events[i].NumTurns = TurnsStarted

\* two turn.started lines around a turn.failed line from stderr, a clean
\* exit: the record counts two turns
C40_Witness ==
    /\ adapter = "codex" /\ observability
    /\ ExitedZero
    /\ Len(consumed) = 3
    /\ IsTurnStarted(consumed[1])
    /\ IsTurnFailed(consumed[2]) /\ consumed[2].fromStderr
    /\ IsTurnStarted(consumed[3])
    /\ Len(records) = 1
    /\ records[1].NumTurns = 2


\* what a Run with the lines, options and exit of run produces when it is the
\* only Run of the Client
AloneRun(run) ==
    LET d == DecodeLoop(run.consumed, run.handler, run.outputStream)
        f == CodexFinish(d.s, d.buf, run.handler, observability, run.exit)
    IN [run EXCEPT
          !.state = d.s,
          !.stderrBuf = d.buf,
          !.streamOut = d.out,
          !.events = IF run.pc = "done" THEN d.ev \o f.ev ELSE d.ev,
          !.records = IF run.pc = "done" THEN f.rec ELSE << >>,
          !.ret = IF run.pc = "done" THEN f.ret ELSE NoReturn]

\* C36: concurrent Run calls on one Codex Client are independent: under
\* every interleaving, the result text, handler events and CompletionRecord
\* of each Run depend only on that Run's own lines, options and exit status,
\* and never on lines decoded by another Run
C36_RunsIndependent ==
    \A r \in RunIDs : runs[r].pc # "idle" => runs[r] = AloneRun(runs[r])

\* one Run has streamed a text and is still decoding while the other, which
\* decoded a turn and a failure, has returned its ExitError
C36_Witness ==
    /\ runs[1].pc = "running"
    /\ Len(runs[1].consumed) = 1
    /\ runs[1].state.assistantText # EmptyStr
    /\ runs[1].state.numTurns = 0
    /\ runs[2].pc = "done"
    /\ Len(runs[2].consumed) = 2
    /\ runs[2].state.numTurns = 1
    /\ runs[2].state.resultEmitted
    /\ runs[2].ret.err = "ExitError"

====
